---- MODULE Spec2Model ----
(***************************************************************************)
(* tailmerge: the byte-slice min-heap (heap.c), the heap test harness      *)
(* (test_heap.c) and the merge driver (tailmerge.c).                       *)
(*                                                                         *)
(* Bytes are their ASCII codes.  A slice (struct iovec) is a record        *)
(* [area, buf, base, len]: area and buf name the memory iov_base points    *)
(* into ("arg": the harness argument, "src": the buffer of source buf,     *)
(* "marker", "newline", "path": static strings), base is the 0-based       *)
(* offset in it.  A memory is a function from buf to byte sequences.       *)
(***************************************************************************)
EXTENDS Integers, Sequences, FiniteSets, TLC

\* ------------------------------------------------------------------ bounds
\* longest argument string given to the heap test harness
MaxInput == 7
\* longest input file, in bytes
MaxFileLen == 3
\* buffer size of a source: the 0xffff of main, scaled down
BufSize == 2
\* capacity of the output batch: the 1024 of main, scaled down
LinesCapacity == 4
\* rounds of the streaming loop that read nothing and go on, before the model stops
MaxZeroRounds == 2
\* longest argument string given to the heap test harness with a heap size
MaxArg == 5
\* largest heap size given to the heap test harness
MaxHeapValue == 3
\* number of files given to the ring reader
RingFiles == 2
\* number of slices given to lines_add
MaxAdds == 5
\* number of writev calls
MaxWrites == 4
\* largest file given to the programs that report lines, in bytes
MaxFramedLen == 4
\* buffer size of these programs: per_file_buffer_sz, scaled down
FramerBufferSz == 3
\* MAX_PRINT_CHARACTERS, scaled down
MaxPrintCharacters == 2
\* the characters main prints of a line (16), scaled down
MaxShownCharacters == 1
\* number of files given to logmerger
MaxMergerSources == 3
\* number of lines in each of them
MaxMergerLines == 2
\* rounds of the down-heap loop of sorter_pop that are counted
MaxDownRounds == 2
\* the most bytes given to find_lines
MaxScanBytes == 3
\* rounds of a loop that does nothing that are told apart
MaxIdleRounds == 2
\* largest file given to the ring reader, in bytes
MaxRingFileLen == 3
\* buffer size of a read of the ring reader: PER_FILE_BUFFER_SZ, scaled down
PerFileBufferSz == 2

\* ------------------------------------------------------------------ bytes
NL == 10
COMMA == 44
DASH == 45
CHAR_A == 97
CHAR_B == 98

Range(f) == {f[i] : i \in DOMAIN f}
Min(S) == CHOOSE x \in S : \A y \in S : x <= y
Max(S) == CHOOSE x \in S : \A y \in S : x >= y

\* all sequences over S of length 0..n
SeqsUpTo(S, n) == UNION {[1..k -> S] : k \in 0..n}

\* the NULL slice
NullSlice == [area |-> "null", buf |-> 0, base |-> 0, len |-> 0]

\* the bytes a slice points at in memory m; -1 stands for a byte of a slice
\* that is outside the buffer it points into
SliceBytes(m, s) ==
    IF s.len = 0 THEN <<>>
    ELSE [k \in 1..s.len |->
            IF s.base + k \in DOMAIN m[s.buf] THEN m[s.buf][s.base + k] ELSE -1]

\* ------------------------------------------------------------------ heap.c
\* memcmp: the difference of the first differing bytes, 0 when none differs
memcmp(x, y, n) ==
    LET d == {i \in 1..n : x[i] # y[i]}
    IN IF d = {} THEN 0 ELSE x[Min(d)] - y[Min(d)]

\* slice_cmp on the bytes of two keys.  The size_t difference of the lengths is
\* converted to int; no key here is 2^31 bytes long, so the conversion keeps it.
bytes_cmp_prefix(x, y) ==
    memcmp(x, y, IF Len(x) < Len(y) THEN Len(x) ELSE Len(y))

bytes_cmp(x, y) ==
    LET a_length == Len(x)
        b_length == Len(y)
        min_length == IF a_length < b_length THEN a_length ELSE b_length
        cmp == memcmp(x, y, min_length)
    IN IF cmp = 0 THEN a_length - b_length ELSE cmp

slice_cmp(m, a, b) == bytes_cmp(SliceBytes(m, a.slice_key), SliceBytes(m, b.slice_key))

\* heap_push_slice, the loop test: stop sifting up
push_stops_strict(m, inserted_entry, half_entry) == slice_cmp(m, inserted_entry, half_entry) >= 0
push_stops(m, inserted_entry, half_entry) == slice_cmp(m, inserted_entry, half_entry) > 0

Swap(e, i, j) == [e EXCEPT ![i] = e[j], ![j] = e[i]]

RECURSIVE sift_up(_, _, _)
sift_up(m, e, inserted) ==
    IF inserted > 1
    THEN LET half == inserted \div 2
         IN IF push_stops(m, e[inserted], e[half])
            THEN e
            ELSE sift_up(m, Swap(e, half, inserted), half)
    ELSE e

\* heap_push_slice: [ok, entries]
heap_push_unchecked(m, e, capacity, key, value) ==
    [ok |-> TRUE,
     entries |-> sift_up(m, Append(e, [slice_key |-> key, value |-> value]), Len(e) + 1)]

heap_push_slice(m, e, capacity, key, value) ==
    IF Len(e) = capacity
    THEN [ok |-> FALSE, entries |-> e]
    ELSE [ok |-> TRUE,
          entries |-> sift_up(m, Append(e, [slice_key |-> key, value |-> value]), Len(e) + 1)]

\* heap_pop_slice_value, the two tests of the sift-down loop
pop_takes_right_never(m, e, new_parent) == FALSE
pop_takes_right(m, e, new_parent) ==
    LET left_child == new_parent * 2
        right_child == left_child + 1
    IN /\ right_child <= Len(e)
       /\ slice_cmp(m, e[right_child], e[left_child]) < 0
       /\ slice_cmp(m, e[right_child], e[new_parent]) < 0

pop_takes_left_never(m, e, new_parent) == FALSE
pop_takes_left(m, e, new_parent) == slice_cmp(m, e[new_parent], e[new_parent * 2]) > 0

RECURSIVE sift_down(_, _, _)
sift_down(m, e, new_parent) ==
    IF new_parent * 2 <= Len(e)
    THEN IF pop_takes_right(m, e, new_parent)
         THEN sift_down(m, Swap(e, new_parent, new_parent * 2 + 1), new_parent * 2 + 1)
         ELSE IF pop_takes_left(m, e, new_parent)
              THEN sift_down(m, Swap(e, new_parent, new_parent * 2), new_parent * 2)
              ELSE e
    ELSE e

\* heap_pop_slice_value: [value, key, entries]
heap_pop_empty_zero(m, e) ==
    IF Len(e) = 0
    THEN [value |-> 0, key |-> NullSlice, entries |-> e]
    ELSE [value |-> e[1].value, key |-> e[1].slice_key,
          entries |-> sift_down(m, IF Len(e) = 1 THEN <<>>
                                   ELSE [SubSeq(e, 1, Len(e) - 1) EXCEPT ![1] = e[Len(e)]], 1)]

heap_pop_slice_value(m, e) ==
    IF Len(e) = 0
    THEN [value |-> -1, key |-> NullSlice, entries |-> e]
    ELSE LET moved == IF Len(e) = 1 THEN <<>>
                      ELSE [SubSeq(e, 1, Len(e) - 1) EXCEPT ![1] = e[Len(e)]]
         IN [value |-> e[1].value, key |-> e[1].slice_key,
             entries |-> sift_down(m, moved, 1)]

heap_is_empty(e) == Len(e) = 0

\* ------------------------------------------------------------ test_heap.c
VARIABLES heap,          \* struct heap: [entries, capacity]; length is Len(entries)
          input,         \* argv[2], the whole sequence string
          pos,           \* perform_sequence: offset of `pos` in the string
          tok,           \* perform_sequence: offset of `input`, start of the pending key
          insert_number, \* perform_sequence: number of pushes made
          popped,        \* what pop_callback received: key bytes, value, pushes made so far, slice
          hpc            \* perform_sequence: "parse", "pop", "drain", "done"; "idle" when not run

harnessVars == <<heap, input, pos, tok, insert_number, popped, hpc>>

\* tailmerge.c: the state of main
VARIABLES files,        \* the input files' contents, by source index
          offs,         \* file offset of each source's descriptor
          sources,      \* struct source[]: buffer, capacity, length, start, end, fd
          sorter,       \* main: struct heap sorter
          lines,        \* struct lines: to_write[0..length)
          sink,         \* the slices writev has written, in order, with their bytes
          last,         \* main: last
          next,         \* main: next
          line,         \* main: line
          is_truncated, \* main: is_truncated
          isrc,         \* main: i of the start-up loop
          zero_rounds,  \* rounds of the streaming loop that read 0 bytes and went on
          missing,      \* the sources whose file cannot be opened
          main_status,  \* the exit status of tailmerge, -1 while it runs
          pc            \* main: "open", "loop", "trunc", "done", "exit"; "idle" when not run

driverVars == <<files, offs, sources, sorter, lines, sink, last, next, line, is_truncated, isrc,
               zero_rounds, missing, main_status, pc>>

\* uring_reader.c and its example program: the reader, the kernel, the consumer
VARIABLES reader,       \* struct uring_reader: files, per_file_buffer_sz, ring_fd, to_submit, bytes_read,
                        \* buffer_sizes, open_files
          file_sizes,   \* the size of each input file, by file index
          sq,           \* submission queue: the reads added and not yet given to the kernel
          in_flight,    \* the reads the kernel holds and has not completed
          cq,           \* completion queue: the completions from cring_head to cring_tail
          loans,        \* the buffers returned by uring_get_any_unloaned and not yet returned
          delivered,    \* what uring_get_any_unloaned has returned, in order: file, base, len
          ring_pc,      \* where the program is: "created", the steps of uring_open_files,
                        \* "run", "wait" (inside io_uring_enter), "end", "exit", "crashed";
                        \* "idle" when not run
          ring_status,  \* the exit of the program: its status and the file its message
                        \* names, both -1 while it runs
          idle_rounds,  \* the rounds of the loop of uring_get_any_unloaned that found
                        \* nothing to handle and did not call io_uring_enter
          buffers       \* the registered buffers: what the kernel has read into each

ringVars ==
    <<reader, file_sizes, sq, in_flight, cq, loans, delivered, ring_pc, ring_status, idle_rounds,
      buffers>>

RingIdle ==
    /\ reader = [files |-> 0, per_file_buffer_sz |-> 0, ring_fd |-> -1, to_submit |-> 0,
                 bytes_read |-> <<>>, buffer_sizes |-> <<>>, open_files |-> 0]
    /\ file_sizes = <<>>
    /\ sq = <<>>
    /\ in_flight = {}
    /\ cq = <<>>
    /\ loans = {}
    /\ delivered = <<>>
    /\ ring_pc = "idle"
    /\ ring_status = [status |-> -1, named |-> -1]
    /\ idle_rounds = 0
    /\ buffers = <<>>

\* tailmerge.c: struct lines and writev, with writes of any size
VARIABLES batch,              \* struct lines: to_write (capacity entries, <<>> for one never
                              \* written, whose bytes are indeterminate), length, capacity
          completely_written, \* lines_flush: completely_written
          to_add,             \* lines_add: the slice to add once the flush returns, <<>> if none
          writes,             \* the writev calls that wrote something: [fd, bytes]
          returns,            \* the values writev has returned, in order
          slices_added,              \* the bytes of the slices given to lines_add, in order
          exit_status,        \* the status of exit(), -1 while the program runs
          lpc                 \* "call", "flush", "exit"; "idle" when not run

linesVars == <<batch, completely_written, to_add, writes, returns, slices_added, exit_status, lpc>>

LinesIdle ==
    /\ batch = [to_write |-> <<>>, length |-> 0, capacity |-> 0]
    /\ completely_written = 0
    /\ to_add = <<>>
    /\ writes = <<>>
    /\ returns = <<>>
    /\ slices_added = <<>>
    /\ exit_status = -1
    /\ lpc = "idle"

\* uring.c and the example program of uring_reader.c: find_lines and the two
\* functions that report the first line of every read
VARIABLES scan,          \* a call of find_lines: buffer, bytes and, once it returned, result
          framed_file,   \* the bytes of the file that is read
          framer,        \* uring.c: the fields of struct uring_reader of the file, its
                         \* buffer and the read that is queued
          info,          \* example program: struct file_line_info of the file, and how
                         \* many bytes of the file were delivered
          reported,      \* the struct line returned for every read, in order
          fpc            \* "scan", "scanned"; "uring", "info", "end"; "idle" when not run

framerVars == <<scan, framed_file, framer, info, reported, fpc>>

NoResult == [lines |-> -1, first_line_length |-> -1, last_line_starts |-> -1, examined |-> {}]

FramerIdle ==
    /\ scan = [buffer |-> <<>>, bytes |-> 0, result |-> NoResult]
    /\ framed_file = <<>>
    /\ framer = [lines_read |-> 0, incomplete_line_length |-> 0, bytes_read |-> 0,
                 needs_copy |-> -1, copy_from |-> 0, buffer |-> <<>>, open_files |-> 0,
                 read |-> [addr |-> 0, len |-> 0, off |-> 0]]
    /\ info = [lines_read |-> 0, incomplete_line |-> <<>>, incomplete_line_length |-> 0,
               line_start_offset |-> 0, delivered |-> 0]
    /\ reported = <<>>
    /\ fpc = "idle"

\* logmerger.c: the sorter and the loop of main that pops from it
VARIABLES merger,         \* struct sorter: elements (capacity entries, -1 for none),
                          \* heapified, unordered, capacity
          merger_sources, \* the lines each source still has, the first being
                          \* source_line() of it, by source index
          merger_last,    \* main: last
          merger_next,    \* sorter_pop: next, the value it is to return
          merged,         \* the values sorter_pop has returned, in order
          down_rounds,    \* the rounds of the down-heap loop of the call of
                          \* sorter_pop in progress that did not leave it
          merger_status,  \* the status of exit(), -1 while the program runs
          mpc             \* "pop" (in sorter_pop, before the heap is proper), "down"
                          \* (in its down-heap loop), "popped", "end", "exit";
                          \* "idle" when not run

mergerVars ==
    <<merger, merger_sources, merger_last, merger_next, merged, down_rounds, merger_status, mpc>>

MergerIdle ==
    /\ merger = [elements |-> <<>>, heapified |-> 0, unordered |-> 0, capacity |-> 0]
    /\ merger_sources = <<>>
    /\ merger_last = -1
    /\ merger_next = -1
    /\ merged = <<>>
    /\ down_rounds = 0
    /\ merger_status = -1
    /\ mpc = "idle"

\* the memory the harness keys point into: the argument string
HMem == [b \in {0} |-> input]

InputChars == {COMMA, DASH, CHAR_A, CHAR_B}

\* main, assert mode: heap_create(SLICE_MIN, strlen(argv[2])), then perform_sequence
HarnessInit ==
    /\ input \in SeqsUpTo(InputChars, MaxInput)
    /\ heap = [entries |-> <<>>, capacity |-> Len(input)]
    /\ pos = 0
    /\ tok = 0
    /\ insert_number = 0
    /\ popped = <<>>
    /\ hpc = "parse"

\* main, with a heap size: heap_create(SLICE_MIN, parse_unsigned(argv[1])), then
\* perform_sequence on argv[2]
HarnessInitSized ==
    /\ input \in SeqsUpTo(InputChars, MaxArg)
    /\ heap \in {[entries |-> <<>>, capacity |-> c] : c \in 0..MaxHeapValue}
    /\ pos = 0
    /\ tok = 0
    /\ insert_number = 0
    /\ popped = <<>>
    /\ hpc = "parse"

HarnessIdle ==
    /\ input = <<>>
    /\ heap = [entries |-> <<>>, capacity |-> 0]
    /\ pos = 0
    /\ tok = 0
    /\ insert_number = 0
    /\ popped = <<>>
    /\ hpc = "idle"

\* heap_push_bytes(heap, input, length, insert_number) after insert_number++
HarnessPush ==
    LET key == [area |-> "arg", buf |-> 0, base |-> tok, len |-> pos - tok]
        r == heap_push_slice(HMem, heap.entries, heap.capacity, key, insert_number + 1)
    IN /\ insert_number' = insert_number + 1
       /\ heap' = [heap EXCEPT !.entries = r.entries]

\* value = heap_pop_slice_value(heap, &string); pop_callback(string, value)
HarnessPop ==
    LET r == heap_pop_slice_value(HMem, heap.entries)
    IN /\ heap' = [heap EXCEPT !.entries = r.entries]
       /\ popped' = Append(popped, [key |-> SliceBytes(HMem, r.key), value |-> r.value,
                                    pushes |-> insert_number, slice |-> r.key])

\* *pos == ',': push the preceding bytes, also if empty
HComma ==
    /\ hpc = "parse" /\ pos < Len(input) /\ input[pos + 1] = COMMA
    /\ HarnessPush
    /\ tok' = pos + 1
    /\ pos' = pos + 1
    /\ UNCHANGED <<input, popped, hpc>>
    /\ UNCHANGED <<driverVars, ringVars, linesVars, framerVars, mergerVars>>

\* *pos == '-': push the preceding bytes if any; the pop follows
HDash ==
    /\ hpc = "parse" /\ pos < Len(input) /\ input[pos + 1] = DASH
    /\ IF tok # pos THEN HarnessPush ELSE UNCHANGED <<heap, insert_number>>
    /\ hpc' = "pop"
    /\ UNCHANGED <<input, pos, tok, popped>>
    /\ UNCHANGED <<driverVars, ringVars, linesVars, framerVars, mergerVars>>

\* *pos == '-': then pop one
HDashPop ==
    /\ hpc = "pop"
    /\ HarnessPop
    /\ tok' = pos + 1
    /\ pos' = pos + 1
    /\ hpc' = "parse"
    /\ UNCHANGED <<input, insert_number>>
    /\ UNCHANGED <<driverVars, ringVars, linesVars, framerVars, mergerVars>>

\* any other character belongs to a key
HOther ==
    /\ hpc = "parse" /\ pos < Len(input) /\ input[pos + 1] \notin {COMMA, DASH}
    /\ pos' = pos + 1
    /\ UNCHANGED <<heap, input, tok, insert_number, popped, hpc>>
    /\ UNCHANGED <<driverVars, ringVars, linesVars, framerVars, mergerVars>>

\* end of the string: push remainder if any
HEnd ==
    /\ hpc = "parse" /\ pos = Len(input)
    /\ IF tok # pos THEN HarnessPush ELSE UNCHANGED <<heap, insert_number>>
    /\ hpc' = "drain"
    /\ UNCHANGED <<input, pos, tok, popped>>
    /\ UNCHANGED <<driverVars, ringVars, linesVars, framerVars, mergerVars>>

\* pop all
HDrain ==
    /\ hpc = "drain"
    /\ IF heap_is_empty(heap.entries)
       THEN hpc' = "done" /\ UNCHANGED <<heap, popped>>
       ELSE HarnessPop /\ UNCHANGED hpc
    /\ UNCHANGED <<input, pos, tok, insert_number>>
    /\ UNCHANGED <<driverVars, ringVars, linesVars, framerVars, mergerVars>>

HarnessNext == HComma \/ HDash \/ HDashPop \/ HOther \/ HEnd \/ HDrain

\* ------------------------------------------------------------ tailmerge.c
\* main: the indexes 0..sources_length-1 of the files given (argc - 1 of them)
SourceIds == DOMAIN files
FileBytes == {NL, CHAR_A, CHAR_B}

\* const char *MARKER = "\n>>> "
MARKER == <<NL, 62, 62, 62, 32>>
\* argv[i+1]: the files are named f0, f1, ...
Path(i) == <<102, 48 + i>>
\* const struct iovec NEWLINE
NEWLINE == [area |-> "newline", buf |-> 0, base |-> 0, len |-> 1]

\* a source slot before source_create and after source_destroy
NoSource == [buffer |-> <<>>, capacity |-> 0, length |-> 0, start |-> 0, end |-> 0, fd |-> -1]

\* source_create: the buffer is allocated (its bytes are indeterminate and are
\* never read before they are written; 0 stands for them), the file is opened
source_create(i, default_buffer_size) ==
    [buffer |-> [k \in 1..default_buffer_size |-> 0], capacity |-> default_buffer_size,
     length |-> 0, start |-> 0, end |-> 0, fd |-> i]

\* source_destroy
source_destroy(src) == [src EXCEPT !.buffer = <<>>, !.fd = -1]

\* source_line
source_line(i, src) == [area |-> "src", buf |-> i, base |-> src.start, len |-> src.end - src.start]

\* memchr(&buffer[from], '\n', n): 0-based offset of the first newline, -1 for NULL;
\* no newline is found outside the bytes of buffer
memchr_nl(buffer, from, n) ==
    LET hits == {k \in from..(from + n - 1) : k + 1 \in DOMAIN buffer /\ buffer[k + 1] = NL}
    IN IF hits = {} THEN -1 ELSE Min(hits)

\* source_advance: [ok, src]
source_advance(src) ==
    IF src.end = src.length
    THEN [ok |-> FALSE, src |-> [src EXCEPT !.start = src.end]]
    ELSE LET next_end == memchr_nl(src.buffer, src.end, src.length - src.end)
         IN IF next_end # -1
            THEN [ok |-> TRUE, src |-> [src EXCEPT !.start = src.end, !.end = next_end + 1]]
            ELSE [ok |-> FALSE, src |-> src]

\* source_read, the memmove: which bytes are moved to the front of the buffer
moved_bytes_tail(src) == SubSeq(src.buffer, src.end + 1, src.length)
moved_bytes(src) == SubSeq(src.buffer, src.start + 1, src.end)

\* source_read, first half: move start of unfinished line to front
source_move(src) ==
    IF src.start # 0
    THEN LET mv == moved_bytes(src)
         IN [src EXCEPT !.buffer = [k \in 1..src.capacity |->
                                       IF k <= Len(mv) THEN mv[k] ELSE src.buffer[k]],
                        !.end = Len(mv),
                        !.start = 0]
    ELSE src

\* the byte counts read() can return for a request of count bytes with
\* remaining bytes left in the file: 0 at end of file or for an empty request,
\* otherwise any positive count up to both
ReadSizes(count, remaining) ==
    IF count = 0 \/ remaining = 0 THEN {0}
    ELSE 1..(IF count < remaining THEN count ELSE remaining)

\* source_read, second half, with the bytes read() delivered: [ok, src]
source_fill(src, data) ==
    LET more == Len(data)
        buffer == [k \in 1..src.capacity |->
                     IF k > src.end /\ k <= src.end + more THEN data[k - src.end]
                     ELSE src.buffer[k]]
        length == src.end + more
        end == memchr_nl(buffer, src.end, more)
    IN IF length = 0
       THEN [ok |-> FALSE, src |-> [src EXCEPT !.buffer = buffer, !.length = length]]
       ELSE [ok |-> TRUE,
             src |-> [src EXCEPT !.buffer = buffer, !.length = length,
                                 !.end = IF end = -1 THEN length ELSE end + 1]]

\* source_read of source i when read() returns n bytes: [ok, src]
source_read(i, src, n) ==
    source_fill(source_move(src), SubSeq(files[i], offs[i] + 1, offs[i] + n))

\* the read sizes possible for source_read of source i
SourceReadSizes(i, src) ==
    ReadSizes(src.capacity - source_move(src).end, Len(files[i]) - offs[i])

\* the memory the sorter's keys point into: the sources' buffers
MemOf(srcs) == [b \in SourceIds |-> srcs[b].buffer]

\* the bytes of a slice of the output batch
LineBytes(srcs, s) ==
    CASE s.area = "src" -> SliceBytes(MemOf(srcs), s)
      [] s.area = "marker" -> SubSeq(MARKER, s.base + 1, s.base + s.len)
      [] s.area = "newline" -> <<NL>>
      [] s.area = "path" -> Path(s.buf)

\* lines_flush, every writev writing all it is given: the batch ls = [lines, sink]
lines_flush_nothing(srcs, ls) == ls

lines_flush(srcs, ls) ==
    [lines |-> <<>>,
     sink |-> ls.sink \o [k \in 1..Len(ls.lines) |->
                            [area |-> ls.lines[k].area, buf |-> ls.lines[k].buf,
                             bytes |-> LineBytes(srcs, ls.lines[k])]]]

\* lines_add
lines_add(srcs, ls, slice) ==
    LET room == IF Len(ls.lines) = LinesCapacity THEN lines_flush(srcs, ls) ELSE ls
    IN [room EXCEPT !.lines = Append(@, slice)]

\* main: whether a header goes before the line of source nxt
header_needed_always(nxt, lst) == TRUE
header_needed(nxt, lst) == nxt # lst

\* main: add header
add_header_full_separator(srcs, ls, nxt, lst) ==
    IF header_needed(nxt, lst)
    THEN lines_add(srcs,
                   lines_add(srcs,
                             lines_add(srcs, ls, [area |-> "marker", buf |-> 0, base |-> 0, len |-> 5]),
                             [area |-> "path", buf |-> nxt, base |-> 0, len |-> Len(Path(nxt))]),
                   NEWLINE)
    ELSE ls

add_header(srcs, ls, nxt, lst) ==
    IF header_needed(nxt, lst)
    THEN LET separator == IF lst = -1
                          THEN [area |-> "marker", buf |-> 0, base |-> 1, len |-> 4]
                          ELSE [area |-> "marker", buf |-> 0, base |-> 0, len |-> 5]
             name == [area |-> "path", buf |-> nxt, base |-> 0, len |-> Len(Path(nxt))]
         IN lines_add(srcs, lines_add(srcs, lines_add(srcs, ls, separator), name), NEWLINE)
    ELSE ls

\* ((char*)line.iov_base)[line.iov_len-1] != '\n'
lacks_newline(srcs, l) == srcs[l.buf].buffer[l.base + l.len] # NL

\* sysexits.h: EX_OK, EX_NOINPUT
EX_OK == 0
EX_NOINPUT == 66
\* source_create: the status given to checkerr for open()
OPEN_FAILED_STATUS == 2

\* main before its start-up loop, given the files' contents
DriverStart(contents) ==
    /\ files = contents
    /\ offs = [i \in DOMAIN contents |-> 0]
    /\ sources = [i \in DOMAIN contents |-> NoSource]
    /\ sorter = [entries |-> <<>>, capacity |-> Cardinality(DOMAIN contents)]
    /\ lines = <<>>
    /\ sink = <<>>
    /\ last = -1
    /\ next = -1
    /\ line = NullSlice
    /\ is_truncated = FALSE
    /\ isrc = 0
    /\ zero_rounds = 0
    /\ missing = {}
    /\ main_status = -1
    /\ pc = "open"

\* tailmerge f0 f1, for all contents of the two files up to MaxFileLen bytes
DriverInit == \E contents \in [{0, 1} -> SeqsUpTo(FileBytes, MaxFileLen)] : DriverStart(contents)

DriverIdle ==
    /\ files = <<>>
    /\ offs = <<>>
    /\ sources = <<>>
    /\ sorter = [entries |-> <<>>, capacity |-> 0]
    /\ lines = <<>>
    /\ sink = <<>>
    /\ last = -1
    /\ next = -1
    /\ line = NullSlice
    /\ is_truncated = FALSE
    /\ isrc = 0
    /\ zero_rounds = 0
    /\ missing = {}
    /\ main_status = -1
    /\ pc = "idle"

\* main, the start-up loop: create source isrc, read, push its first line
InitSource ==
    /\ pc = "open"
    /\ isrc \notin missing
    /\ LET created == source_create(isrc, BufSize)
       IN \E n \in SourceReadSizes(isrc, created) :
            LET r == source_read(isrc, created, n)
                srcs == [sources EXCEPT ![isrc] = IF r.ok THEN r.src ELSE source_destroy(r.src)]
            IN /\ sources' = srcs
               /\ offs' = [offs EXCEPT ![isrc] = @ + n]
               /\ sorter' = IF r.ok
                            THEN [sorter EXCEPT !.entries =
                                    heap_push_slice(MemOf(srcs), sorter.entries, sorter.capacity,
                                                    source_line(isrc, r.src), isrc).entries]
                            ELSE sorter
    /\ isrc' = isrc + 1
    /\ pc' = IF isrc + 1 = Cardinality(SourceIds) THEN "loop" ELSE "open"
    /\ UNCHANGED <<files, lines, sink, last, next, line, is_truncated, zero_rounds>>
    /\ UNCHANGED <<missing, main_status>>
    /\ UNCHANGED <<harnessVars, ringVars, linesVars, framerVars, mergerVars>>

\* main: the pop at the head of the loop
MainPopKeepsEntry ==
    [heap_pop_slice_value(MemOf(sources), sorter.entries) EXCEPT !.entries = sorter.entries]

MainPop == heap_pop_slice_value(MemOf(sources), sorter.entries)

\* main: the batch after the header and the popped line were added
MainEmitted ==
    lines_add(sources,
              add_header(sources, [lines |-> lines, sink |-> sink], MainPop.value, last),
              MainPop.key)

\* main: the heap is empty; optional cleanup
MainDone ==
    /\ pc = "loop"
    /\ MainPop.value = -1
    /\ next' = -1
    /\ line' = MainPop.key
    /\ sources' = [i \in SourceIds |-> source_destroy(sources[i])]
    /\ pc' = "done"
    /\ main_status' = EX_OK
    /\ UNCHANGED <<files, offs, sorter, lines, sink, last, is_truncated, isrc, zero_rounds, missing>>
    /\ UNCHANGED <<harnessVars, ringVars, linesVars, framerVars, mergerVars>>

\* main: a line is popped and emitted, the buffer holds another line
MainAdvance ==
    /\ pc = "loop"
    /\ MainPop.value # -1
    /\ LET nxt == MainPop.value
           adv == source_advance(sources[nxt])
           srcs == [sources EXCEPT ![nxt] = adv.src]
       IN /\ adv.ok
          /\ next' = nxt
          /\ last' = nxt
          /\ lines' = MainEmitted.lines
          /\ sink' = MainEmitted.sink
          /\ line' = source_line(nxt, adv.src)
          /\ sources' = srcs
          /\ sorter' = [sorter EXCEPT !.entries =
                          heap_push_slice(MemOf(srcs), MainPop.entries, sorter.capacity,
                                          source_line(nxt, adv.src), nxt).entries]
    /\ UNCHANGED <<files, offs, is_truncated, isrc, zero_rounds, pc>>
    /\ UNCHANGED <<missing, main_status>>
    /\ UNCHANGED <<harnessVars, ringVars, linesVars, framerVars, mergerVars>>

\* main: a line without newline is popped and emitted; flush, enter the
\* streaming loop
MainTruncated ==
    /\ pc = "loop"
    /\ MainPop.value # -1
    /\ LET nxt == MainPop.value
           adv == source_advance(sources[nxt])
           flushed == lines_flush(sources, MainEmitted)
       IN /\ ~adv.ok
          /\ lacks_newline(sources, MainPop.key)
          /\ next' = nxt
          /\ last' = nxt
          /\ line' = MainPop.key
          /\ sources' = [sources EXCEPT ![nxt] = adv.src]
          /\ sorter' = [sorter EXCEPT !.entries = MainPop.entries]
          /\ lines' = flushed.lines
          /\ sink' = flushed.sink
          /\ is_truncated' = TRUE
          /\ zero_rounds' = 0
          /\ pc' = "trunc"
    /\ UNCHANGED <<files, offs, isrc>>
    /\ UNCHANGED <<missing, main_status>>
    /\ UNCHANGED <<harnessVars, ringVars, linesVars, framerVars, mergerVars>>

\* main: a complete line is popped and emitted, the buffer holds no further
\* line; flush, read more, push
MainRead ==
    /\ pc = "loop"
    /\ MainPop.value # -1
    /\ LET nxt == MainPop.value
           adv == source_advance(sources[nxt])
           flushed == lines_flush(sources, MainEmitted)
       IN /\ ~adv.ok
          /\ ~lacks_newline(sources, MainPop.key)
          /\ \E n \in SourceReadSizes(nxt, adv.src) :
               LET r == source_read(nxt, adv.src, n)
                   srcs == [sources EXCEPT ![nxt] = r.src]
               IN /\ sources' = srcs
                  /\ offs' = [offs EXCEPT ![nxt] = @ + n]
                  /\ line' = IF r.ok THEN source_line(nxt, r.src) ELSE MainPop.key
                  /\ sorter' = [sorter EXCEPT !.entries =
                                  IF r.ok
                                  THEN heap_push_slice(MemOf(srcs), MainPop.entries, sorter.capacity,
                                                       source_line(nxt, r.src), nxt).entries
                                  ELSE MainPop.entries]
          /\ next' = nxt
          /\ last' = nxt
          /\ lines' = flushed.lines
          /\ sink' = flushed.sink
    /\ UNCHANGED <<files, is_truncated, isrc, zero_rounds, pc>>
    /\ UNCHANGED <<missing, main_status>>
    /\ UNCHANGED <<harnessVars, ringVars, linesVars, framerVars, mergerVars>>

\* main: one round of while (source_read(&sources[next])) and what follows the
\* loop when it ends
TruncRead ==
    /\ pc = "trunc"
    /\ zero_rounds < MaxZeroRounds
    /\ \E n \in SourceReadSizes(next, sources[next]) :
         LET r == source_read(next, sources[next], n)
             srcs == [sources EXCEPT ![next] = r.src]
             ls == [lines |-> lines, sink |-> sink]
         IN /\ offs' = [offs EXCEPT ![next] = @ + n]
            /\ zero_rounds' = IF n = 0 /\ r.ok THEN zero_rounds + 1 ELSE 0
            /\ IF ~r.ok
               THEN \* the loop ends; is_truncated is still set
                    LET out == IF is_truncated THEN lines_add(srcs, ls, NEWLINE) ELSE ls
                    IN /\ sources' = srcs
                       /\ lines' = out.lines
                       /\ sink' = out.sink
                       /\ pc' = "loop"
                       /\ UNCHANGED <<sorter, line, is_truncated>>
               ELSE LET l == source_line(next, r.src)
                        added == lines_add(srcs, ls, l)
                        trunc == lacks_newline(srcs, l)
                        adv == source_advance(r.src)
                    IN /\ line' = l
                       /\ is_truncated' = trunc
                       /\ IF ~trunc /\ adv.ok
                          THEN \* push and break
                               LET srcs2 == [sources EXCEPT ![next] = adv.src]
                               IN /\ sources' = srcs2
                                  /\ sorter' = [sorter EXCEPT !.entries =
                                        heap_push_slice(MemOf(srcs2), sorter.entries,
                                                        sorter.capacity, l, next).entries]
                                  /\ lines' = added.lines
                                  /\ sink' = added.sink
                                  /\ pc' = "loop"
                          ELSE LET srcs2 == IF trunc THEN srcs
                                            ELSE [sources EXCEPT ![next] = adv.src]
                                   flushed == lines_flush(srcs2, added)
                               IN /\ sources' = srcs2
                                  /\ lines' = flushed.lines
                                  /\ sink' = flushed.sink
                                  /\ pc' = "trunc"
                                  /\ UNCHANGED sorter
    /\ UNCHANGED <<files, last, next, isrc>>
    /\ UNCHANGED <<missing, main_status>>
    /\ UNCHANGED <<harnessVars, ringVars, linesVars, framerVars, mergerVars>>

DriverNext == InitSource \/ MainDone \/ MainAdvance \/ MainTruncated \/ MainRead \/ TruncRead

\* tailmerge f0 f1 where any of the files may be impossible to open
DriverStartMissing ==
    \E contents \in [{0, 1} -> SeqsUpTo(FileBytes, MaxFileLen)], m \in SUBSET {0, 1} :
        /\ files = contents
        /\ offs = [i \in DOMAIN contents |-> 0]
        /\ sources = [i \in DOMAIN contents |-> NoSource]
        /\ sorter = [entries |-> <<>>, capacity |-> Cardinality(DOMAIN contents)]
        /\ lines = <<>>
        /\ sink = <<>>
        /\ last = -1
        /\ next = -1
        /\ line = NullSlice
        /\ is_truncated = FALSE
        /\ isrc = 0
        /\ zero_rounds = 0
        /\ missing = m
        /\ main_status = -1
        /\ pc = "open"

\* main, the start-up loop: source_create fails to open file isrc; checkerr
\* prints the error and exits
OpenFails ==
    /\ pc = "open"
    /\ isrc \in missing
    /\ main_status' = OPEN_FAILED_STATUS
    /\ pc' = "exit"
    /\ UNCHANGED <<files, offs, sources, sorter, lines, sink, last, next, line, is_truncated, isrc,
                   zero_rounds, missing>>
    /\ UNCHANGED <<harnessVars, ringVars, linesVars, framerVars, mergerVars>>

DriverMissingNext == DriverNext \/ OpenFails

\* ------------------------------------------- tailmerge.c: lines and writev
\* the descriptor lines_flush gives to writev
WRITEV_FD == 0
\* sysexits.h: EX_IOERR
EX_IOERR == 74

\* the slices the caller adds: one byte, and two bytes ending a line
Slices == {<<CHAR_A>>, <<CHAR_B, NL>>}

\* lines_create(capacity)
lines_create(capacity) ==
    [to_write |-> [k \in 1..capacity |-> <<>>], length |-> 0, capacity |-> capacity]

\* the bytes of the slices from index from (0-based) up to length
RECURSIVE PendingBytes(_, _)
PendingBytes(ls, from) ==
    IF from >= ls.length THEN <<>> ELSE ls.to_write[from + 1] \o PendingBytes(ls, from + 1)

\* what writev may return for the slices pending: an error, or a byte count up
\* to their total
WritevReturns(ls, from) == -1..Len(PendingBytes(ls, from))

\* lines_flush: while (written >= to_write[completely_written].iov_len), on
\* entries below length: [written, completely_written]
RECURSIVE skip_written(_, _, _)
skip_written(ls, written, cw) ==
    IF cw < ls.length /\ written >= Len(ls.to_write[cw + 1])
    THEN skip_written(ls, written - Len(ls.to_write[cw + 1]), cw + 1)
    ELSE [written |-> written, completely_written |-> cw]

\* lines_flush: the same loop test on entries from length on, which it reads as
\* well when written is 0: a stale entry has a length above 0 and ends the
\* loop; an entry never written, or one past the array, holds any value, and the
\* loop goes on for as long as it reads 0.  The indexes it may stop at.
OvershootTo(ls, cw) ==
    IF cw < ls.length THEN {cw}
    ELSE LET stale == {k \in cw..(ls.capacity - 1) : ls.to_write[k + 1] # <<>>}
         IN IF stale = {} THEN cw..(ls.capacity + 1) ELSE cw..Min(stale)

\* lines_flush: if (written != 0), the slice is trimmed
trim_nothing(ls, written, cw) == ls

trim(ls, written, cw) ==
    IF written # 0
    THEN [ls EXCEPT !.to_write[cw + 1] = SubSeq(@, written + 1, Len(@))]
    ELSE ls

\* lines_add after its flush: the slice is stored
store(ls, slice) == [ls EXCEPT !.to_write[ls.length + 1] = slice, !.length = @ + 1]

\* a program that creates a batch of LinesCapacity slices
LinesStart ==
    /\ batch = lines_create(LinesCapacity)
    /\ completely_written = 0
    /\ to_add = <<>>
    /\ writes = <<>>
    /\ returns = <<>>
    /\ slices_added = <<>>
    /\ exit_status = -1
    /\ lpc = "call"

\* lines_add(lines, slice): stores the slice, or enters lines_flush first
LinesAdd ==
    /\ lpc = "call"
    /\ Len(slices_added) < MaxAdds
    /\ \E slice \in Slices :
         /\ slices_added' = Append(slices_added, slice)
         /\ IF batch.length = batch.capacity
            THEN /\ lpc' = "flush"
                 /\ to_add' = slice
                 /\ completely_written' = 0
                 /\ UNCHANGED batch
            ELSE /\ batch' = store(batch, slice)
                 /\ UNCHANGED <<lpc, to_add, completely_written>>
    /\ UNCHANGED <<writes, returns, exit_status>>
    /\ UNCHANGED <<harnessVars, driverVars, ringVars, framerVars, mergerVars>>

\* lines_flush(lines) called by the program
LinesFlush ==
    /\ lpc = "call"
    /\ lpc' = "flush"
    /\ completely_written' = 0
    /\ UNCHANGED <<batch, to_add, writes, returns, slices_added, exit_status>>
    /\ UNCHANGED <<harnessVars, driverVars, ringVars, framerVars, mergerVars>>

\* lines_flush: one round of its loop, writev returning any value
FlushWritev ==
    /\ lpc = "flush"
    /\ completely_written < batch.length
    /\ Len(returns) < MaxWrites
    /\ \E written \in WritevReturns(batch, completely_written) :
         /\ returns' = Append(returns, written)
         /\ IF written < 0
            THEN \* checkerr: exit(EX_IOERR)
                 /\ exit_status' = EX_IOERR
                 /\ lpc' = "exit"
                 /\ UNCHANGED <<batch, completely_written, writes>>
            ELSE LET skipped == skip_written(batch, written, completely_written)
                 IN /\ writes' = IF written = 0 THEN writes
                                  ELSE Append(writes,
                                         [fd |-> WRITEV_FD,
                                          bytes |-> SubSeq(PendingBytes(batch, completely_written),
                                                           1, written)])
                    /\ \E cw \in OvershootTo(batch, skipped.completely_written) :
                          completely_written' = cw
                    /\ batch' = IF skipped.completely_written < batch.length
                                THEN trim(batch, skipped.written, skipped.completely_written)
                                ELSE batch
                    /\ UNCHANGED <<exit_status, lpc>>
    /\ UNCHANGED <<to_add, slices_added>>
    /\ UNCHANGED <<harnessVars, driverVars, ringVars, framerVars, mergerVars>>

\* lines_flush: the loop is over, lines->length = 0; lines_add then stores its slice
FlushReturn ==
    /\ lpc = "flush"
    /\ completely_written >= batch.length
    /\ batch' = IF to_add = <<>> THEN [batch EXCEPT !.length = 0]
                ELSE store([batch EXCEPT !.length = 0], to_add)
    /\ to_add' = <<>>
    /\ completely_written' = 0
    /\ lpc' = "call"
    /\ UNCHANGED <<writes, returns, slices_added, exit_status>>
    /\ UNCHANGED <<harnessVars, driverVars, ringVars, framerVars, mergerVars>>

LinesNext == LinesAdd \/ LinesFlush \/ FlushWritev \/ FlushReturn

\* ---------------------------------------------------------- uring_reader.c
\* A submission entry is [file, operation, addr, len, off], addr being the index
\* of the buffer in units of per_file_buffer_sz; a completion entry is
\* [file, operation, res]; a read handed to the consumer is [file, base, len],
\* base being the index of the buffer.  Opens succeed and leave no completion
\* (IOSQE_CQE_SKIP_SUCCESS).
RingFileIds == 0..(RingFiles - 1)

ECANCELED == 125

\* uring_create, ring_created being the result of create_ring (false when
\* io_uring_setup fails with ENOSYS): the fields that matter afterwards.  The
\* pointers into the rings stay NULL when no ring was created.
uring_create(nfiles, per_file_buffer_sz, ring_created) ==
    LET size == IF ring_created THEN per_file_buffer_sz ELSE per_file_buffer_sz * 2
    IN [files |-> nfiles,
        per_file_buffer_sz |-> size,
        ring_fd |-> IF ring_created THEN 3 ELSE -1,  \* 3: the first descriptor free
        to_submit |-> 0,
        bytes_read |-> [f \in 0..(nfiles - 1) |-> 0],
        buffer_sizes |-> [f \in 0..(nfiles - 1) |-> size],
        open_files |-> 0]

\* open_and_read: the first read of a file, into its buffer A
first_read(r, file) ==
    [file |-> file, operation |-> "READ_TO_BUFFER_A", addr |-> file,
     len |-> r.per_file_buffer_sz, off |-> 0]

\* uring_handle_completion: the buffer a completed read has filled
buffer_index(r, cqe) ==
    IF cqe.operation = "READ_TO_BUFFER_B" THEN cqe.file + r.files ELSE cqe.file

\* uring_handle_completion: the operation and the buffer of the read to prepare
other_operation(cqe) ==
    IF cqe.operation = "READ_TO_BUFFER_A" THEN "READ_TO_BUFFER_B" ELSE "READ_TO_BUFFER_A"

other_buffer_index(r, cqe) ==
    IF cqe.operation = "READ_TO_BUFFER_A" THEN cqe.file + r.files ELSE cqe.file

\* uring_handle_completion: if (read.iov_len == 0)
read_ended_never(res) == FALSE

read_ended(res) == res = 0

\* uring_handle_completion: nothing to take from the completion queue
nothing_to_handle(r, completions) == completions = <<>> \/ r.to_submit = r.files

\* uring_handle_completion: r->bytes_read[file] += (off_t)read.iov_len
bytes_read_before(r, cqe) == r.bytes_read[cqe.file]

bytes_read_after(r, cqe) == r.bytes_read[cqe.file] + cqe.res

\* uring_handle_completion on the completion at the head of the queue: the
\* reader afterwards, the submission entries added, and the read returned
uring_handle_completion(r, cqe) ==
    LET bytes == bytes_read_after(r, cqe)
        file == cqe.file
    IN IF read_ended(cqe.res)
       THEN [r |-> [r EXCEPT !.open_files = @ - 1, !.bytes_read[file] = -1],
             added |-> <<>>,
             read |-> [file |-> file, base |-> buffer_index(r, cqe), len |-> cqe.res]]
       ELSE [r |-> [r EXCEPT !.bytes_read[file] = bytes, !.to_submit = @ + 1],
             added |-> <<[file |-> file, operation |-> other_operation(cqe),
                          addr |-> other_buffer_index(r, cqe),
                          len |-> r.buffer_sizes[file], off |-> bytes]>>,
             read |-> [file |-> file, base |-> buffer_index(r, cqe), len |-> cqe.res]]

\* uring_get_any_unloaned: if (r->open_files == 0)
no_open_files_left(r) == r.open_files <= 1

no_open_files(r) == r.open_files = 0

\* the result of a read of a regular file or a pipe: 0 at the end of the file,
\* else at least one byte and at most what was asked for and what is left
\* (an open, and a read linked to an open that fails, do not complete this way)
ReadResults(sqe) ==
    LET left == file_sizes[sqe.file] - sqe.off
    IN IF sqe.operation = "OPEN_FILE" \/ file_sizes[sqe.file] < 0 THEN {}
       ELSE IF left <= 0 \/ sqe.len = 0 THEN {0} ELSE 1..Min({left, sqe.len})

\* the bytes of a file are told apart by their file and their position in it
FileBytesAt(file, off, n) == [k \in 1..n |-> <<file, off + k>>]

\* the read handed to the consumer, with what its buffer holds at that moment
Loaned(read) ==
    [file |-> read.file, base |-> read.base, len |-> read.len,
     bytes |-> SubSeq(buffers[read.base], 1, read.len)]

\* main of the example program after uring_create, for all sizes of the files
RingStart(sizes) ==
    /\ reader = uring_create(RingFiles, PerFileBufferSz, TRUE)
    /\ file_sizes = sizes
    /\ sq = <<>>
    /\ in_flight = {}
    /\ cq = <<>>
    /\ loans = {}
    /\ delivered = <<>>
    /\ ring_pc = "created"
    /\ ring_status = [status |-> -1, named |-> -1]
    /\ idle_rounds = 0
    /\ buffers = [b \in 0..(2 * RingFiles - 1) |-> <<>>]

RingStartAny == \E sizes \in [RingFileIds -> 0..MaxRingFileLen] : RingStart(sizes)

\* the same on a kernel without io_uring, or with one
RingStartAnyKernel ==
    \E sizes \in [RingFileIds -> 0..MaxRingFileLen], ring_created \in BOOLEAN :
        /\ reader = uring_create(RingFiles, PerFileBufferSz, ring_created)
        /\ file_sizes = sizes
        /\ sq = <<>>
        /\ in_flight = {}
        /\ cq = <<>>
        /\ loans = {}
        /\ delivered = <<>>
        /\ ring_pc = "created"
        /\ ring_status = [status |-> -1, named |-> -1]
        /\ idle_rounds = 0
        /\ buffers = [b \in 0..(2 * RingFiles - 1) |-> <<>>]

\* uring_open_files up to the last io_uring_enter: an open and a first read are
\* added for every file and all of them are submitted
OpenFiles ==
    /\ ring_pc = "created"
    /\ reader.ring_fd # -1
    /\ reader' = [reader EXCEPT !.open_files = @ + reader.files]
    /\ in_flight' = {first_read(reader, f) : f \in 0..(reader.files - 1)}
    /\ ring_pc' = "opening"
    /\ UNCHANGED <<file_sizes, sq, cq, loans, delivered>>
    /\ UNCHANGED <<ring_status, idle_rounds, buffers>>
    /\ UNCHANGED <<harnessVars, driverVars, linesVars, framerVars, mergerVars>>

\* uring_open_files: the last io_uring_enter returns once r->files completions are there
OpenFilesReturn ==
    /\ ring_pc = "opening"
    /\ Len(cq) >= reader.files
    /\ ring_pc' = "run"
    /\ UNCHANGED <<reader, file_sizes, sq, in_flight, cq, loans, delivered>>
    /\ UNCHANGED <<ring_status, idle_rounds, buffers>>
    /\ UNCHANGED <<harnessVars, driverVars, linesVars, framerVars, mergerVars>>

\* the kernel completes one of the reads it holds
KernelComplete ==
    /\ \E sqe \in in_flight :
         \E res \in ReadResults(sqe) :
            /\ in_flight' = in_flight \ {sqe}
            /\ cq' = Append(cq, [file |-> sqe.file, operation |-> sqe.operation, res |-> res])
            /\ buffers' = [buffers EXCEPT ![sqe.addr] =
                               FileBytesAt(sqe.file, sqe.off, res) \o SubSeq(@, res + 1, Len(@))]
    /\ UNCHANGED <<reader, file_sizes, sq, loans, delivered, ring_pc>>
    /\ UNCHANGED <<ring_status, idle_rounds>>
    /\ UNCHANGED <<harnessVars, driverVars, linesVars, framerVars, mergerVars>>

\* uring_get_any_unloaned when no file is open: returns NULL with *file = -1, main ends
GetEnd ==
    /\ ring_pc = "run"
    /\ no_open_files(reader)
    /\ ring_pc' = "end"
    /\ UNCHANGED <<reader, file_sizes, sq, in_flight, cq, loans, delivered>>
    /\ UNCHANGED <<ring_status, idle_rounds, buffers>>
    /\ UNCHANGED <<harnessVars, driverVars, linesVars, framerVars, mergerVars>>

\* uring_submit: while (r->to_submit > 0)
nothing_to_submit_ever(r) == FALSE

nothing_to_submit(r) == r.to_submit <= 0

\* uring_get_any_unloaned, a round of its loop that finds nothing to handle:
\* uring_submit gives the kernel all the entries added, in a call of
\* io_uring_enter that returns once the completion queue holds an entry
GetSubmit ==
    /\ ring_pc = "run"
    /\ ~no_open_files(reader)
    /\ nothing_to_handle(reader, cq)
    /\ ~nothing_to_submit(reader)
    /\ in_flight' = in_flight \cup Range(sq)
    /\ sq' = <<>>
    /\ reader' = [reader EXCEPT !.to_submit = 0]
    /\ ring_pc' = IF cq = <<>> THEN "wait" ELSE "run"
    /\ UNCHANGED <<file_sizes, cq, loans, delivered>>
    /\ UNCHANGED <<ring_status, idle_rounds, buffers>>
    /\ UNCHANGED <<harnessVars, driverVars, linesVars, framerVars, mergerVars>>

\* io_uring_enter(ring_fd, to_submit, 1, IORING_ENTER_GETEVENTS) returns
GetSubmitReturn ==
    /\ ring_pc = "wait"
    /\ cq # <<>>
    /\ ring_pc' = "run"
    /\ UNCHANGED <<reader, file_sizes, sq, in_flight, cq, loans, delivered>>
    /\ UNCHANGED <<ring_status, idle_rounds, buffers>>
    /\ UNCHANGED <<harnessVars, driverVars, linesVars, framerVars, mergerVars>>

\* uring_get_any_unloaned, a round of its loop that finds nothing to handle
\* and nothing to submit: uring_submit returns without a call of
\* io_uring_enter and the loop looks at the completion queue again
GetSpin ==
    /\ ring_pc = "run"
    /\ ~no_open_files(reader)
    /\ nothing_to_handle(reader, cq)
    /\ nothing_to_submit(reader)
    /\ idle_rounds' = Min({idle_rounds + 1, MaxIdleRounds})
    /\ UNCHANGED <<reader, file_sizes, sq, in_flight, cq, loans, delivered, ring_pc>>
    /\ UNCHANGED <<ring_status, buffers>>
    /\ UNCHANGED <<harnessVars, driverVars, linesVars, framerVars, mergerVars>>

\* uring_handle_completion: the completion is that of a read that was not cancelled
is_open_completion(cqe) == cqe.operation = "OPEN_FILE"

is_cancelled_never(cqe) == FALSE

is_cancelled(cqe) == cqe.res = -ECANCELED

\* checkerr_sys(ret, status, ...): whether the program exits, and with which status
checkerr_sys(ret, status) == [exits |-> ret < 0, status |-> status]

\* uring_get_any_unloaned, the round of its loop that handles the completion of
\* a read and returns the read to the consumer, which holds the buffer as a
\* loan; the program exits when the read failed
GetCompletion ==
    /\ ring_pc = "run"
    /\ ~no_open_files(reader)
    /\ ~nothing_to_handle(reader, cq)
    /\ ~is_open_completion(Head(cq))
    /\ ~is_cancelled(Head(cq))
    /\ cq' = Tail(cq)
    /\ LET c == checkerr_sys(Head(cq).res, EX_IOERR)
           h == uring_handle_completion(reader, Head(cq))
       IN IF c.exits
          THEN /\ ring_pc' = "exit"
               /\ ring_status' = [status |-> c.status, named |-> Head(cq).file]
               /\ UNCHANGED <<reader, sq, loans, delivered>>
          ELSE /\ reader' = h.r
               /\ sq' = sq \o h.added
               /\ loans' = loans \cup {h.read.base}
               /\ delivered' = Append(delivered, Loaned(h.read))
               /\ UNCHANGED <<ring_pc, ring_status>>
    /\ UNCHANGED <<file_sizes, in_flight>>
    /\ UNCHANGED <<idle_rounds, buffers>>
    /\ UNCHANGED <<harnessVars, driverVars, linesVars, framerVars, mergerVars>>

\* uring_return_loan(buffer): does nothing in the reader; the consumer gives up
\* the buffer, at once as main does or later as the interface allows
ReturnLoan ==
    /\ ring_pc \in {"run", "end"}
    /\ \E buffer \in loans : loans' = loans \ {buffer}
    /\ UNCHANGED <<reader, file_sizes, sq, in_flight, cq, delivered, ring_pc>>
    /\ UNCHANGED <<ring_status, idle_rounds, buffers>>
    /\ UNCHANGED <<harnessVars, driverVars, linesVars, framerVars, mergerVars>>

\* uring_open_files when no ring was created: its first statement reads
\* *r->sring_tail, a NULL pointer.  Address 0 is not mapped: the process is
\* killed by SIGSEGV there or, if the unused first load is dropped by the
\* compiler, at the next load through a ring pointer.
OpenFilesNoRing ==
    /\ ring_pc = "created"
    /\ reader.ring_fd = -1
    /\ ring_pc' = "crashed"
    /\ UNCHANGED <<reader, file_sizes, sq, in_flight, cq, loans, delivered>>
    /\ UNCHANGED <<ring_status, idle_rounds, buffers>>
    /\ UNCHANGED <<harnessVars, driverVars, linesVars, framerVars, mergerVars>>

\* ------------------------------------- uring_reader.c, uring_open_files by steps
\* create_ring: the capacity asked for the submission and the completion ring
ring_capacity_exact(nfiles) == nfiles

ring_capacity(nfiles) == IF nfiles % 2 # 0 THEN nfiles + 1 ELSE nfiles

\* open_and_read: the open of a file, linked to its first read
open_entry(file) ==
    [file |-> file, operation |-> "OPEN_FILE", addr |-> -1, len |-> 0, off |-> 0]

\* open_and_read(r, file, &tail) for the files from..(to - 1): the reader and
\* the submission queue afterwards
RECURSIVE open_and_read(_, _, _, _)
open_and_read(r, entries, from, to) ==
    IF from >= to THEN [r |-> r, entries |-> entries]
    ELSE open_and_read([r EXCEPT !.open_files = @ + 1, !.to_submit = @ + 2],
                       entries \o <<open_entry(from), first_read(r, from)>>,
                       from + 1, to)

\* uring_open_files: the files of the first batch are 0..(r->files/2 - 1)
first_batch_end_none(r) == 0

first_batch_end(r) == r.files \div 2

\* what the kernel keeps of the entries it is given: an open that succeeds
\* leaves nothing behind (IOSQE_CQE_SKIP_SUCCESS) and its read starts, an open
\* that fails will complete with an error and its linked read with -ECANCELED
Accepted(entries) ==
    {sqe \in Range(entries) : ~(sqe.operation = "OPEN_FILE" /\ file_sizes[sqe.file] >= 0)}

\* the results of an open that fails: -ENOENT, -EACCES
OpenErrors == {-2, -13}

\* main after uring_create, for one file or more, each of any size or impossible
\* to open (size -1)
RingStartSteps ==
    \E n \in 1..RingFiles :
        \E sizes \in [0..(n - 1) -> -1..MaxRingFileLen] :
            /\ reader = uring_create(n, PerFileBufferSz, TRUE)
            /\ file_sizes = sizes
            /\ sq = <<>>
            /\ in_flight = {}
            /\ cq = <<>>
            /\ loans = {}
            /\ delivered = <<>>
            /\ ring_pc = "created"
            /\ ring_status = [status |-> -1, named |-> -1]
            /\ idle_rounds = 0
            /\ buffers = [b \in 0..(2 * n - 1) |-> <<>>]

\* uring_open_files: the first loop
OpenFirstBatch ==
    /\ ring_pc = "created"
    /\ reader.ring_fd # -1
    /\ LET o == open_and_read(reader, sq, 0, first_batch_end(reader))
       IN reader' = o.r /\ sq' = o.entries
    /\ ring_pc' = "first_added"
    /\ UNCHANGED <<file_sizes, in_flight, cq, loans, delivered>>
    /\ UNCHANGED <<ring_status, idle_rounds, buffers>>
    /\ UNCHANGED <<harnessVars, driverVars, linesVars, framerVars, mergerVars>>

\* uring_open_files: uring_submit(r, 0)
SubmitFirstBatch ==
    /\ ring_pc = "first_added"
    /\ IF nothing_to_submit(reader)
       THEN UNCHANGED <<reader, sq, in_flight>>
       ELSE /\ in_flight' = in_flight \cup Accepted(sq)
            /\ sq' = <<>>
            /\ reader' = [reader EXCEPT !.to_submit = 0]
    /\ ring_pc' = "first_submitted"
    /\ UNCHANGED <<file_sizes, cq, loans, delivered>>
    /\ UNCHANGED <<ring_status, idle_rounds, buffers>>
    /\ UNCHANGED <<harnessVars, driverVars, linesVars, framerVars, mergerVars>>

\* uring_open_files: the second loop
OpenSecondBatch ==
    /\ ring_pc = "first_submitted"
    /\ LET o == open_and_read(reader, sq, first_batch_end(reader), reader.files)
       IN reader' = o.r /\ sq' = o.entries
    /\ ring_pc' = "second_added"
    /\ UNCHANGED <<file_sizes, in_flight, cq, loans, delivered>>
    /\ UNCHANGED <<ring_status, idle_rounds, buffers>>
    /\ UNCHANGED <<harnessVars, driverVars, linesVars, framerVars, mergerVars>>

\* uring_open_files: uring_submit(r, r->files), up to the call of io_uring_enter
\* that waits for r->files completions
SubmitSecondBatch ==
    /\ ring_pc = "second_added"
    /\ IF nothing_to_submit(reader)
       THEN UNCHANGED <<reader, sq, in_flight>>
       ELSE /\ in_flight' = in_flight \cup Accepted(sq)
            /\ sq' = <<>>
            /\ reader' = [reader EXCEPT !.to_submit = 0]
    /\ ring_pc' = "opening"
    /\ UNCHANGED <<file_sizes, cq, loans, delivered>>
    /\ UNCHANGED <<ring_status, idle_rounds, buffers>>
    /\ UNCHANGED <<harnessVars, driverVars, linesVars, framerVars, mergerVars>>

\* the kernel completes an open that fails
KernelFailOpen ==
    /\ \E sqe \in in_flight :
         /\ sqe.operation = "OPEN_FILE"
         /\ \E res \in OpenErrors :
               cq' = Append(cq, [file |-> sqe.file, operation |-> sqe.operation, res |-> res])
         /\ in_flight' = in_flight \ {sqe}
    /\ UNCHANGED <<reader, file_sizes, sq, loans, delivered, ring_pc>>
    /\ UNCHANGED <<ring_status, idle_rounds, buffers>>
    /\ UNCHANGED <<harnessVars, driverVars, linesVars, framerVars, mergerVars>>

\* the kernel cancels the read linked to an open that fails
KernelCancelRead ==
    /\ \E sqe \in in_flight :
         /\ sqe.operation # "OPEN_FILE"
         /\ file_sizes[sqe.file] < 0
         /\ cq' = Append(cq, [file |-> sqe.file, operation |-> sqe.operation,
                              res |-> -ECANCELED])
         /\ in_flight' = in_flight \ {sqe}
    /\ UNCHANGED <<reader, file_sizes, sq, loans, delivered, ring_pc>>
    /\ UNCHANGED <<ring_status, idle_rounds, buffers>>
    /\ UNCHANGED <<harnessVars, driverVars, linesVars, framerVars, mergerVars>>

\* uring_handle_completion on the completion of an open: the program exits
\* when the open failed, else the next completion is looked at
GetOpenCompletion ==
    /\ ring_pc = "run"
    /\ ~no_open_files(reader)
    /\ ~nothing_to_handle(reader, cq)
    /\ is_open_completion(Head(cq))
    /\ cq' = Tail(cq)
    /\ LET c == checkerr_sys(Head(cq).res, EX_NOINPUT)
       IN IF c.exits
          THEN /\ ring_pc' = "exit"
               /\ ring_status' = [status |-> c.status, named |-> Head(cq).file]
          ELSE UNCHANGED <<ring_pc, ring_status>>
    /\ UNCHANGED <<reader, file_sizes, sq, in_flight, loans, delivered>>
    /\ UNCHANGED <<idle_rounds, buffers>>
    /\ UNCHANGED <<harnessVars, driverVars, linesVars, framerVars, mergerVars>>

\* uring_handle_completion on the completion of a cancelled read: a message,
\* and the next completion is looked at
GetCancelled ==
    /\ ring_pc = "run"
    /\ ~no_open_files(reader)
    /\ ~nothing_to_handle(reader, cq)
    /\ ~is_open_completion(Head(cq))
    /\ is_cancelled(Head(cq))
    /\ cq' = Tail(cq)
    /\ UNCHANGED <<reader, file_sizes, sq, in_flight, loans, delivered, ring_pc>>
    /\ UNCHANGED <<ring_status, idle_rounds, buffers>>
    /\ UNCHANGED <<harnessVars, driverVars, linesVars, framerVars, mergerVars>>

RingStepsNext ==
    OpenFirstBatch \/ SubmitFirstBatch \/ OpenSecondBatch \/ SubmitSecondBatch
        \/ OpenFilesReturn \/ KernelComplete \/ KernelFailOpen \/ KernelCancelRead
        \/ GetEnd \/ GetSubmit \/ GetSubmitReturn \/ GetSpin \/ GetCompletion
        \/ GetOpenCompletion \/ GetCancelled \/ ReturnLoan

RingNext ==
    OpenFiles \/ OpenFilesReturn \/ KernelComplete \/ GetEnd \/ GetSubmit \/ GetSubmitReturn
        \/ GetSpin \/ GetCompletion \/ ReturnLoan

\* ------------------------------------------------------ uring.c: find_lines
\* memchr(&buffer[from], '\n', n): the 0-based offsets of the bytes it looks at
memchr_examined(buffer, from, n) ==
    LET hit == memchr_nl(buffer, from, n)
    IN IF n <= 0 THEN {} ELSE from..(IF hit = -1 THEN from + n - 1 ELSE hit)

\* find_lines, the body of its loop: bytes -= line_length; bytes--;
bytes_left_one_more(bytes, line_length) == bytes - line_length

bytes_left(bytes, line_length) == bytes - line_length - 1

\* find_lines, its do-while loop from the newline found at newline_at
RECURSIVE find_lines_loop(_, _, _, _, _, _)
find_lines_loop(buffer, bytes, newline_at, start_of_line, found, examined) ==
    LET line_length == newline_at - start_of_line
        left == bytes_left(bytes, line_length)
        next_line == newline_at + 1
        next_newline == memchr_nl(buffer, next_line, left)
        seen == examined \cup memchr_examined(buffer, next_line, left)
    IN IF next_newline = -1
       THEN [lines |-> found + 1, start_of_line |-> next_line, examined |-> seen]
       ELSE find_lines_loop(buffer, left, next_newline, next_line, found + 1, seen)

\* find_lines after its first memchr, which returned newline_at and looked at
\* the bytes first: what it sets and returns
find_lines_set(base, newline_at, loop) ==
    [lines |-> loop.lines, first_line_length |-> newline_at + 1 - base,
     last_line_starts |-> loop.start_of_line - base,
     examined |-> {k - base : k \in loop.examined}]

\* find_lines from its first memchr on
find_lines_from(buffer, base, bytes, newline_at, first) ==
    IF newline_at = -1
    THEN [lines |-> 0, first_line_length |-> bytes, last_line_starts |-> bytes,
          examined |-> {k - base : k \in first}]
    ELSE find_lines_set(base, newline_at,
                        find_lines_loop(buffer, bytes, newline_at, base, 0, first))

\* find_lines(&buffer[base], bytes, &first_line_length, &last_line_starts): the
\* number returned, the two lengths set, and the offsets from base of the bytes
\* looked at
find_lines(buffer, base, bytes) ==
    find_lines_from(buffer, base, bytes, memchr_nl(buffer, base, bytes),
                    memchr_examined(buffer, base, bytes))

\* a caller of find_lines with a buffer of 2 * MaxScanBytes bytes, of which it
\* gives the first bytes to find_lines
ScanStart ==
    /\ \E buffer \in [1..(2 * MaxScanBytes) -> {CHAR_A, NL}], bytes \in 0..MaxScanBytes :
          scan = [buffer |-> buffer, bytes |-> bytes, result |-> NoResult]
    /\ framed_file = <<>>
    /\ framer = [lines_read |-> 0, incomplete_line_length |-> 0, bytes_read |-> 0,
                 needs_copy |-> -1, copy_from |-> 0, buffer |-> <<>>, open_files |-> 0,
                 read |-> [addr |-> 0, len |-> 0, off |-> 0]]
    /\ info = [lines_read |-> 0, incomplete_line |-> <<>>, incomplete_line_length |-> 0,
               line_start_offset |-> 0, delivered |-> 0]
    /\ reported = <<>>
    /\ fpc = "scan"

\* the call of find_lines
FindLines ==
    /\ fpc = "scan"
    /\ scan' = [scan EXCEPT !.result = find_lines(scan.buffer, 0, scan.bytes)]
    /\ fpc' = "scanned"
    /\ UNCHANGED <<framed_file, framer, info, reported>>
    /\ UNCHANGED <<harnessVars, driverVars, ringVars, linesVars, mergerVars>>

\* ------------------------------------- uring.c: uring_get_first_line_in_read
\* memcpy(&mem[dest], &mem[src], n) that copies by ascending addresses
RECURSIVE copy_up(_, _, _, _, _)
copy_up(mem, dest, src, n, k) ==
    IF k >= n THEN mem
    ELSE copy_up([mem EXCEPT ![dest + k + 1] = mem[src + k + 1]], dest, src, n, k + 1)

\* and one that copies by descending addresses
RECURSIVE copy_down(_, _, _, _, _)
copy_down(mem, dest, src, n, k) ==
    IF k < 0 THEN mem
    ELSE copy_down([mem EXCEPT ![dest + k + 1] = mem[src + k + 1]], dest, src, n, k - 1)

\* memcpy(&mem[dest], &mem[src], n): what mem can be afterwards.  The result
\* is undefined when the two ranges overlap; a memcpy copies in one of the two
\* directions, which give the same result when they do not overlap.
memcpy(mem, dest, src, n) == {copy_up(mem, dest, src, n, 0), copy_down(mem, dest, src, n, n - 1)}

\* the read of len bytes at offset off of the file: what the kernel can return
FileRead(off, len) ==
    LET left == Len(framed_file) - off
    IN IF left <= 0 \/ len <= 0 THEN {0} ELSE 1..Min({left, len})

\* the buffer after the kernel has read n bytes from offset off to &buffer[addr]
Filled(buffer, addr, off, n) ==
    [k \in 1..Len(buffer) |->
        IF k > addr /\ k <= addr + n THEN framed_file[off + (k - addr)] ELSE buffer[k]]

\* uring_get_first_line_in_read: incomplete_line_length = line_aligned_bytes_read - last_line_starts
incomplete_after(line_aligned_bytes_read, first_line_length, last_line_starts) ==
    line_aligned_bytes_read - last_line_starts

\* uring_get_first_line_in_read once find_lines has returned found: the next
\* read is queued and the line returned
first_line_queued(r, bytes_read, found, line_length, last_line_starts, incomplete_line_length) ==
    [r |-> [r EXCEPT !.bytes_read = @ + bytes_read,
                     !.lines_read = @ + found.lines,
                     !.incomplete_line_length = incomplete_line_length,
                     !.needs_copy = IF incomplete_line_length # 0 THEN 0 ELSE @,
                     !.copy_from = IF incomplete_line_length # 0
                                   THEN last_line_starts ELSE @,
                     !.read = [addr |-> incomplete_line_length,
                               len |-> FramerBufferSz - incomplete_line_length,
                               off |-> r.bytes_read + bytes_read]],
     ret |-> [line_number |-> r.lines_read,
              byte_offset |-> r.bytes_read - r.incomplete_line_length,
              line_length |-> line_length,
              line |-> SubSeq(r.buffer, 1, line_length)]]

\* uring_get_first_line_in_read around its call of find_lines, which returns found
first_line_found(r, bytes_read, found) ==
    IF bytes_read + r.incomplete_line_length = 0
    THEN [r |-> [r EXCEPT !.open_files = @ - 1],
          ret |-> [line_number |-> r.lines_read,
                   byte_offset |-> r.bytes_read - r.incomplete_line_length,
                   line_length |-> 0, line |-> <<>>]]
    ELSE first_line_queued(r, bytes_read, found,
            found.first_line_length + r.incomplete_line_length,
            found.last_line_starts + r.incomplete_line_length,
            incomplete_after(bytes_read + r.incomplete_line_length,
                             found.first_line_length + r.incomplete_line_length,
                             found.last_line_starts + r.incomplete_line_length))

\* uring_get_first_line_in_read from "we only get successful completion events
\* from reads" on, for a completion of bytes_read bytes: the reader afterwards
\* and the struct line returned
first_line_in_read(r, bytes_read) ==
    first_line_found(r, bytes_read,
                     find_lines(r.buffer, r.incomplete_line_length, bytes_read))

\* mem[at] = '\0'; a byte after the end of mem is none of the bytes modelled
Terminated(mem, at) ==
    IF at < Len(mem) THEN [mem EXCEPT ![at + 1] = 0] ELSE mem

\* main: the line is shortened for printing, line.line[line.line_length] = '\0'
printed_length(ret) ==
    IF ret.line_length > MaxShownCharacters THEN MaxShownCharacters ELSE ret.line_length - 1

\* main: the buffer after the line returned is printed; nothing is written
\* to it for the line of length 0 that ends a file
line_printed(buffer, ret) ==
    IF ret.line_length = 0 THEN buffer ELSE Terminated(buffer, printed_length(ret))

\* uring_open_files of uring.c on one file: the first read is queued
FramerStart ==
    /\ scan = [buffer |-> <<>>, bytes |-> 0, result |-> NoResult]
    /\ framed_file \in SeqsUpTo({CHAR_A, CHAR_B, NL}, MaxFramedLen)
    /\ framer = [lines_read |-> 1, incomplete_line_length |-> 0, bytes_read |-> 0,
                 needs_copy |-> -1, copy_from |-> 0,
                 buffer |-> [k \in 1..FramerBufferSz |-> 0], open_files |-> 1,
                 read |-> [addr |-> 0, len |-> FramerBufferSz, off |-> 0]]
    /\ info = [lines_read |-> 1, incomplete_line |-> [k \in 1..(MaxPrintCharacters + 1) |-> 0],
               incomplete_line_length |-> 0, line_start_offset |-> 0, delivered |-> 0]
    /\ reported = <<>>
    /\ fpc = "uring"

\* a call of uring_get_first_line_in_read: the unfinished line is copied to the
\* start of the buffer, io_uring_enter gives the kernel the read that is
\* queued and returns when it is completed, the completion is handled; main
\* then ends the line it prints with a '\0' in the buffer
UringFirstLine ==
    /\ fpc = "uring"
    /\ framer.open_files # 0
    /\ \E copied \in (IF framer.needs_copy >= 0
                      THEN memcpy(framer.buffer, 0, framer.copy_from,
                                  framer.incomplete_line_length)
                      ELSE {framer.buffer}) :
         \E bytes_read \in FileRead(framer.read.off, framer.read.len) :
          \E h \in {first_line_in_read(
                       [framer EXCEPT !.needs_copy = -1,
                                      !.buffer = Filled(copied, framer.read.addr,
                                                        framer.read.off, bytes_read)],
                       bytes_read)} :
               /\ framer' = [h.r EXCEPT !.buffer = line_printed(h.r.buffer, h.ret)]
               /\ reported' = Append(reported,
                      [by |-> "uring", at |-> framer.read.off, len |-> bytes_read,
                       carry |-> framer.incomplete_line_length, ret |-> h.ret])
    /\ UNCHANGED <<scan, framed_file, info, fpc>>
    /\ UNCHANGED <<harnessVars, driverVars, ringVars, linesVars, mergerVars>>

\* the call of uring_get_first_line_in_read when no file is open: it returns no
\* file name and main ends
UringFirstLineEnd ==
    /\ fpc = "uring"
    /\ framer.open_files = 0
    /\ fpc' = "info"
    /\ UNCHANGED <<scan, framed_file, framer, info, reported>>
    /\ UNCHANGED <<harnessVars, driverVars, ringVars, linesVars, mergerVars>>

\* ---------------------------- example program of uring_reader.c: the lines
\* get_first_line_in_read: l->line_start_offset += ...
line_start_offset_after_read(l, iov_len, next_incomplete_line_length) ==
    l.line_start_offset + iov_len - next_incomplete_line_length

line_start_offset_after(l, iov_len, next_incomplete_line_length) ==
    l.line_start_offset + l.incomplete_line_length + iov_len - next_incomplete_line_length

\* overwrite: the n bytes of from put at &mem[dest] (memcpy between two arrays)
Put(mem, dest, from, n) ==
    [k \in 1..Len(mem) |-> IF k > dest /\ k <= dest + n THEN from[k - dest] ELSE mem[k]]

\* get_first_line_in_read, "update for next": the file_line_info afterwards
updated_for_next(l, iov_len, found) ==
    [l EXCEPT !.lines_read = @ + found.lines,
              !.line_start_offset =
                  line_start_offset_after(l, iov_len, iov_len - found.last_line_starts),
              !.incomplete_line_length = iov_len - found.last_line_starts]

\* get_first_line_in_read: the line is in the read; first_line_length is cut
\* to MAX_PRINT_CHARACTERS
first_line_of_read(l, read, cut) ==
    [l |-> l, read |-> Terminated(read, cut),
     ret |-> [line_number |-> l.lines_read, byte_offset |-> l.line_start_offset,
              line_length |-> cut, line |-> SubSeq(read, 1, cut), of |-> "read"]]

\* get_first_line_in_read: the line is l->incomplete_line, which holds
\* MAX_PRINT_CHARACTERS or more
first_line_kept(l, read) ==
    [l |-> [l EXCEPT !.incomplete_line = Terminated(@, MaxPrintCharacters)],
     read |-> read,
     ret |-> [line_number |-> l.lines_read, byte_offset |-> l.line_start_offset,
              line_length |-> MaxPrintCharacters,
              line |-> SubSeq(l.incomplete_line, 1, MaxPrintCharacters),
              of |-> "incomplete_line"]]

\* get_first_line_in_read: the line is l->incomplete_line with the fit first
\* bytes of the read copied after it, which make it joined
first_line_joined(l, read, fit, joined) ==
    [l |-> [l EXCEPT !.incomplete_line = Terminated(joined, l.incomplete_line_length + fit)],
     read |-> read,
     ret |-> [line_number |-> l.lines_read, byte_offset |-> l.line_start_offset,
              line_length |-> l.incomplete_line_length + fit,
              line |-> SubSeq(joined, 1, l.incomplete_line_length + fit),
              of |-> "incomplete_line"]]

\* get_first_line_in_read: the three cases of where the line is
first_line_where(l, read, first_line_length) ==
    IF l.incomplete_line_length = 0
    THEN first_line_of_read(l, read, Min({first_line_length, MaxPrintCharacters}))
    ELSE IF l.incomplete_line_length >= MaxPrintCharacters
    THEN first_line_kept(l, read)
    ELSE first_line_joined(l, read,
            Min({first_line_length, MaxPrintCharacters - l.incomplete_line_length}),
            Put(l.incomplete_line, l.incomplete_line_length, read,
                Min({first_line_length, MaxPrintCharacters - l.incomplete_line_length})))

\* the line selected, then the update for next
first_line_updated(selected, l, iov_len, found) ==
    [selected EXCEPT !.l = [updated_for_next(l, iov_len, found) EXCEPT
                                !.incomplete_line = selected.l.incomplete_line]]

\* get_first_line_in_read on a read that holds bytes, find_lines having
\* returned found
first_line_selected(l, read, found) ==
    first_line_updated(first_line_where(l, read, found.first_line_length),
                       l, Len(read), found)

\* get_first_line_in_read(l, read), read being the bytes of the read: the
\* file_line_info afterwards, the struct line returned (of is where line.line
\* points to) and the bytes of the read after line.line[line.line_length] = '\0'
get_first_line_in_read(l, read) ==
    IF Len(read) = 0
    THEN [l |-> l, read |-> read,
          ret |-> [line_number |-> IF l.incomplete_line_length = 0
                                   THEN l.lines_read - 1 ELSE l.lines_read,
                   byte_offset |-> l.line_start_offset,
                   line_length |-> 0, line |-> <<>>, of |-> "NULL"]]
    ELSE first_line_selected(l, read, find_lines(read, 0, Len(read)))

\* finish_read: the number of bytes kept of the unfinished line
to_copy(l) ==
    IF l.incomplete_line_length > MaxPrintCharacters
    THEN MaxPrintCharacters ELSE l.incomplete_line_length

\* finish_read(l, read): the unfinished line is kept in l->incomplete_line.
\* After the zero-length read at the end of a file that has an unfinished
\* line, line_starts_at is negative and the bytes copied are those in front
\* of read.iov_base, whatever they are: stray.
finish_read(l, read, stray) ==
    LET line_starts_at == Len(read) - l.incomplete_line_length
    IN [l EXCEPT !.incomplete_line =
            IF line_starts_at < 0 THEN Put(@, 0, stray, to_copy(l))
            ELSE Put(@, 0, SubSeq(read, line_starts_at + 1, Len(read)), to_copy(l))]

\* the reads uring_get_any_unloaned can return next: at most a buffer of the
\* bytes that follow those delivered, no byte at the end of the file
NextReads ==
    {SubSeq(framed_file, info.delivered + 1, info.delivered + n) :
        n \in FileRead(info.delivered, FramerBufferSz)}

\* main once get_first_line_in_read has returned g: the line is printed up to
\* the '\0' that main writes, then finish_read
line_shown(g, stray) ==
    [l |-> finish_read(
              IF g.ret.of = "incomplete_line"
              THEN [g.l EXCEPT !.incomplete_line =
                       Terminated(g.l.incomplete_line, printed_length(g.ret))]
              ELSE g.l,
              IF g.ret.of = "read"
              THEN Terminated(g.read, printed_length(g.ret)) ELSE g.read,
              stray),
     ret |-> g.ret]

\* a round of the loop of main on the read uring_get_any_unloaned returned:
\* get_first_line_in_read, the line is printed up to a '\0' that main writes
\* where line.line points to, then finish_read
main_round(l, read, stray) ==
    line_shown(get_first_line_in_read(l, read), stray)

\* the bytes in front of the buffer of a zero-length read that finish_read
\* can find when there is an unfinished line; it reads them in no other case
StrayBytes ==
    IF info.incomplete_line_length > 0 /\ info.delivered >= Len(framed_file)
    THEN [1..MaxPrintCharacters -> {0, CHAR_A, CHAR_B, NL}]
    ELSE {[k \in 1..MaxPrintCharacters |-> 0]}

\* a round of the loop of main; the zero-length read is the last
InfoFirstLine ==
    /\ fpc = "info"
    /\ \E read \in NextReads, stray \in StrayBytes :
         \E m \in {main_round([lines_read |-> info.lines_read,
                                incomplete_line |-> info.incomplete_line,
                                incomplete_line_length |-> info.incomplete_line_length,
                                line_start_offset |-> info.line_start_offset],
                               read, stray)} :
            /\ info' = [lines_read |-> m.l.lines_read, incomplete_line |-> m.l.incomplete_line,
                        incomplete_line_length |-> m.l.incomplete_line_length,
                        line_start_offset |-> m.l.line_start_offset,
                        delivered |-> info.delivered + Len(read)]
            /\ reported' = Append(reported,
                   [by |-> "info", at |-> info.delivered, len |-> Len(read),
                    carry |-> info.incomplete_line_length, ret |-> m.ret])
            /\ fpc' = IF Len(read) = 0 THEN "end" ELSE "info"
    /\ UNCHANGED <<scan, framed_file, framer>>
    /\ UNCHANGED <<harnessVars, driverVars, ringVars, linesVars, mergerVars>>

FramerNext == UringFirstLine \/ UringFirstLineEnd \/ InfoFirstLine

\* ------------------------------------------------- logmerger.c: the sorter
\* sysexits.h: EX_SOFTWARE
EX_SOFTWARE == 70

\* the lines of the files given to logmerger
MergerLines == {<<CHAR_A, NL>>, <<CHAR_B, NL>>, <<CHAR_A, CHAR_B, NL>>}

\* sources_less(left_index, right_index, sources, sources_length, last)
sources_less(left_index, right_index, srcs, last_index) ==
    LET left_line == Head(srcs[left_index + 1])
        right_line == Head(srcs[right_index + 1])
        min_length == IF Len(left_line) < Len(right_line)
                      THEN Len(left_line) ELSE Len(right_line)
        cmp == memcmp(left_line, right_line, min_length)
    IN IF cmp # 0 THEN cmp < 0
       ELSE IF left_index = last_index THEN TRUE
       ELSE IF right_index = last_index THEN FALSE
       ELSE left_index < right_index

\* sorter_create(max_elements)
sorter_create(max_elements) ==
    [elements |-> [k \in 1..max_elements |-> -1], heapified |-> 0, unordered |-> 0,
     capacity |-> max_elements]

\* sorter_push(sorter, value): the sorter afterwards, or the exit
sorter_push(s, value) ==
    LET index == s.heapified + s.unordered
    IN IF index >= s.capacity \/ value < 0 \/ value >= s.capacity
          \/ s.elements[index + 1] # -1
       THEN [exits |-> TRUE, sorter |-> s]
       ELSE [exits |-> FALSE,
             sorter |-> [s EXCEPT !.elements[index + 1] = value, !.unordered = @ + 1]]

\* main: the sources that have a line are pushed in order
RECURSIVE push_all(_, _, _)
push_all(s, srcs, i) ==
    IF i >= Len(srcs) THEN s
    ELSE push_all(IF srcs[i + 1] # <<>> THEN sorter_push(s, i).sorter ELSE s, srcs, i + 1)

\* sorter_pop: the up-heap loop, which swaps an element with its parent while
\* it is less and never changes index
RECURSIVE up_heap(_, _, _, _)
up_heap(elements, index, srcs, last_index) ==
    LET parent == ((index + 1) \div 2) - 1
    IN IF index > 0 /\ sources_less(elements[index + 1], elements[parent + 1], srcs, last_index)
       THEN up_heap([elements EXCEPT ![index + 1] = elements[parent + 1],
                                     ![parent + 1] = elements[index + 1]],
                    index, srcs, last_index)
       ELSE elements

\* sorter_pop: "have a proper heap": next is the root, the last element is
\* moved to the root
take_root(s) ==
    [s EXCEPT !.heapified = @ - 1,
              !.elements = [@ EXCEPT ![1] = s.elements[s.heapified],
                                     ![s.heapified] = -1]]

\* sorter_pop: a round of the down-heap loop from top: the value of after
\* before "if (after == top)"
down_heap_after(s, top, srcs, last_index) ==
    LET left == (top + 1) * 2 - 1
        right == (top + 1) * 2
        after_left == IF left < s.heapified
                         /\ sources_less(s.elements[left + 1], s.elements[top + 1],
                                         srcs, last_index)
                      THEN left ELSE top
    IN IF right < s.heapified
          /\ sources_less(s.elements[right + 1], s.elements[after_left + 1], srcs, last_index)
       THEN right ELSE after_left

\* main up to its loop: the sorter is created and every source that has a
\* line is pushed
MergerStart ==
    /\ \E n \in 1..MaxMergerSources :
         merger_sources \in [1..n -> SeqsUpTo(MergerLines, MaxMergerLines)]
    /\ merger = push_all(sorter_create(Len(merger_sources)), merger_sources, 0)
    /\ merger_last = -1
    /\ merger_next = -1
    /\ merged = <<>>
    /\ down_rounds = 0
    /\ merger_status = -1
    /\ mpc = "pop"

\* sorter_pop: a round of "while (sorter->unordered > 1)"
SorterPopHeapify ==
    /\ mpc = "pop"
    /\ merger.unordered > 1
    /\ merger' = [merger EXCEPT
                     !.elements = up_heap(@, merger.heapified, merger_sources, merger_last),
                     !.heapified = @ + 1,
                     !.unordered = @ - 1]
    /\ UNCHANGED <<merger_sources, merger_last, merger_next, merged, down_rounds,
                   merger_status, mpc>>
    /\ UNCHANGED <<harnessVars, driverVars, ringVars, linesVars, framerVars>>

\* sorter_pop: push-then-pop, the unordered element is returned
SorterPopUnordered ==
    /\ mpc = "pop"
    /\ merger.unordered = 1
    /\ \/ merger.heapified = 0
       \/ sources_less(merger.elements[merger.heapified + 1], merger.elements[1],
                       merger_sources, merger_last)
    /\ merger_next' = merger.elements[merger.heapified + 1]
    /\ merger' = [merger EXCEPT !.elements[merger.heapified + 1] = -1, !.unordered = 0]
    /\ merged' = Append(merged, merger_next')
    /\ mpc' = "popped"
    /\ UNCHANGED <<merger_sources, merger_last, down_rounds, merger_status>>
    /\ UNCHANGED <<harnessVars, driverVars, ringVars, linesVars, framerVars>>

\* sorter_pop: the heap is proper, or is made so by counting the unordered
\* element in; the root is taken and the down-heap loop entered
SorterPopRoot ==
    /\ mpc = "pop"
    /\ \/ /\ merger.unordered = 1
          /\ merger.heapified # 0
          /\ ~sources_less(merger.elements[merger.heapified + 1], merger.elements[1],
                           merger_sources, merger_last)
       \/ /\ merger.unordered = 0
          /\ merger.heapified # 0
    /\ merger_next' = merger.elements[1]
    /\ merger' = take_root([merger EXCEPT !.heapified = @ + merger.unordered,
                                          !.unordered = 0])
    /\ mpc' = "down"
    /\ UNCHANGED <<merger_sources, merger_last, merged, down_rounds, merger_status>>
    /\ UNCHANGED <<harnessVars, driverVars, ringVars, linesVars, framerVars>>

\* sorter_pop: the sorter is empty, -1 is returned and the loop of main ends
SorterPopEmpty ==
    /\ mpc = "pop"
    /\ merger.unordered = 0
    /\ merger.heapified = 0
    /\ mpc' = "end"
    /\ UNCHANGED <<merger, merger_sources, merger_last, merger_next, merged, down_rounds,
                   merger_status>>
    /\ UNCHANGED <<harnessVars, driverVars, ringVars, linesVars, framerVars>>

\* sorter_pop: a round of the down-heap loop; top stays 0.  It breaks and
\* returns next when after == top, else it sets after = top and goes round
DownHeapRound ==
    /\ mpc = "down"
    /\ IF down_heap_after(merger, 0, merger_sources, merger_last) = 0
       THEN /\ merged' = Append(merged, merger_next)
            /\ down_rounds' = 0
            /\ mpc' = "popped"
       ELSE /\ down_rounds' = Min({down_rounds + 1, MaxDownRounds})
            /\ UNCHANGED <<merged, mpc>>
    /\ UNCHANGED <<merger, merger_sources, merger_last, merger_next, merger_status>>
    /\ UNCHANGED <<harnessVars, driverVars, ringVars, linesVars, framerVars>>

\* main: the body of its loop for the source popped: last = next, the line is
\* written, and the source is pushed again if it has another line
MergerAfterPop ==
    /\ mpc = "popped"
    /\ merger_last' = merger_next
    /\ merger_sources' = [merger_sources EXCEPT ![merger_next + 1] = Tail(@)]
    /\ IF Tail(merger_sources[merger_next + 1]) = <<>>
       THEN /\ mpc' = "pop"
            /\ UNCHANGED <<merger, merger_status>>
       ELSE LET pushed == sorter_push(merger, merger_next)
            IN /\ merger' = pushed.sorter
               /\ mpc' = IF pushed.exits THEN "exit" ELSE "pop"
               /\ merger_status' = IF pushed.exits THEN EX_SOFTWARE ELSE merger_status
    /\ UNCHANGED <<merger_next, merged, down_rounds>>
    /\ UNCHANGED <<harnessVars, driverVars, ringVars, linesVars, framerVars>>

MergerNext ==
    \/ SorterPopHeapify \/ SorterPopUnordered \/ SorterPopRoot \/ SorterPopEmpty
    \/ DownHeapRound \/ MergerAfterPop

\* ---------------------------------------------------------- specifications
vars == <<harnessVars, driverVars, ringVars, linesVars, framerVars, mergerVars>>

\* the heap test harness on every argument string up to MaxInput bytes
HeapInit == HarnessInit /\ DriverIdle /\ RingIdle /\ LinesIdle /\ FramerIdle /\ MergerIdle
SpecHeap == HeapInit /\ [][HarnessNext]_vars

\* the heap test harness with every heap size up to MaxHeapValue on every
\* argument string up to MaxArg bytes
HeapSizedInit == HarnessInitSized /\ DriverIdle /\ RingIdle /\ LinesIdle /\ FramerIdle /\ MergerIdle
SpecHeapSized == HeapSizedInit /\ [][HarnessNext]_vars

\* tailmerge on every two files of up to MaxFileLen bytes
Init == DriverInit /\ HarnessIdle /\ RingIdle /\ LinesIdle /\ FramerIdle /\ MergerIdle
Spec == Init /\ [][DriverNext]_vars

\* the ring reader on RingFiles files of up to MaxRingFileLen bytes, with a
\* consumer that may keep a loan over later calls
RingInit == RingStartAny /\ HarnessIdle /\ DriverIdle /\ LinesIdle /\ FramerIdle /\ MergerIdle
SpecRing == RingInit /\ [][RingNext]_vars

\* tailmerge on an empty file and a file of up to MaxFileLen bytes, where the
\* scheduler lets the program run
DriverInitOneFile ==
    \E contents \in [{0, 1} -> SeqsUpTo(FileBytes, MaxFileLen)] :
        contents[0] = <<>> /\ DriverStart(contents)
FairInit == DriverInitOneFile /\ HarnessIdle /\ RingIdle /\ LinesIdle /\ FramerIdle /\ MergerIdle
SpecFair == FairInit /\ [][DriverNext]_vars /\ WF_vars(DriverNext)

\* tailmerge on two files of which any may be impossible to open
MissingInit == DriverStartMissing /\ HarnessIdle /\ RingIdle /\ LinesIdle /\ FramerIdle /\ MergerIdle
SpecMissing == MissingInit /\ [][DriverMissingNext]_vars

\* the output batch under every sequence of lines_add and lines_flush calls and
\* every sequence of writev results
LinesInit == LinesStart /\ HarnessIdle /\ DriverIdle /\ RingIdle /\ FramerIdle /\ MergerIdle
SpecLines == LinesInit /\ [][LinesNext]_vars

\* the ring reader on kernels with and without io_uring
RingAnyKernelInit == RingStartAnyKernel /\ HarnessIdle /\ DriverIdle /\ LinesIdle /\ FramerIdle /\ MergerIdle
RingAnyKernelNext == RingNext \/ OpenFilesNoRing
SpecRingAnyKernel == RingAnyKernelInit /\ [][RingAnyKernelNext]_vars

\* the ring reader with uring_open_files by its steps, on one file or more of
\* which any may be impossible to open
RingStepsInit == RingStartSteps /\ HarnessIdle /\ DriverIdle /\ LinesIdle /\ FramerIdle /\ MergerIdle
SpecRingSteps == RingStepsInit /\ [][RingStepsNext]_vars

\* find_lines on every buffer of newlines and other bytes
FindLinesInit == ScanStart /\ HarnessIdle /\ DriverIdle /\ RingIdle /\ LinesIdle /\ MergerIdle
SpecFindLines == FindLinesInit /\ [][FindLines]_vars

\* the two programs that report the first line of every read, one after the
\* other, on every file of up to MaxFramedLen bytes and every split into reads
FramerInit == FramerStart /\ HarnessIdle /\ DriverIdle /\ RingIdle /\ LinesIdle /\ MergerIdle
SpecFramer == FramerInit /\ [][FramerNext]_vars

\* logmerger on up to MaxMergerSources files of up to MaxMergerLines lines, every
\* step of it being taken in the end
MergerInit == MergerStart /\ HarnessIdle /\ DriverIdle /\ RingIdle /\ LinesIdle /\ FramerIdle
SpecMerger == MergerInit /\ [][MergerNext]_vars /\ WF_vars(MergerNext)

\* the same where the kernel completes every read and the program keeps running
SpecRingFair ==
    /\ RingInit
    /\ [][RingNext]_vars
    /\ WF_vars(KernelComplete)
    /\ WF_vars(OpenFiles \/ OpenFilesReturn \/ GetEnd \/ GetSubmit \/ GetSubmitReturn
                   \/ GetCompletion)

\* ---------------------------------------------------- claims about the heap
\* a pop that found an entry (the callback got a value other than -1)
RealPop(i) == popped[i].value # -1

\* C7, as stated: over a whole sequence of interleaved pushes and pops, the keys
\* returned by successive pops never decrease.
C7_AllPopsNonDecreasing ==
    \A i \in 1..(Len(popped) - 1) :
        RealPop(i) /\ RealPop(i + 1) => bytes_cmp(popped[i].key, popped[i + 1].key) <= 0

\* C7, amended: the keys returned by two successive pops with no push between
\* them never decrease, whatever pushes and pops came before.
C7_PopsWithoutPushNonDecreasing ==
    \A i \in 1..(Len(popped) - 1) :
        RealPop(i) /\ RealPop(i + 1) /\ popped[i].pushes = popped[i + 1].pushes
            => bytes_cmp(popped[i].key, popped[i + 1].key) <= 0

\* two pops in a row, after an earlier pop, return keys in increasing order
\* though the greater key was pushed first
C7_Witness ==
    \E i \in 2..(Len(popped) - 1) :
        /\ RealPop(i) /\ RealPop(i + 1) /\ popped[i].pushes = popped[i + 1].pushes
        /\ popped[i - 1].pushes < popped[i].pushes
        /\ bytes_cmp(popped[i].key, popped[i + 1].key) < 0
        /\ popped[i].value > popped[i + 1].value

\* a step that pops an entry off a non-empty heap
PopStep == Len(popped') = Len(popped) + 1 /\ Len(heap.entries) > 0

\* C8: a pop on a non-empty heap removes exactly one entry and returns its key
\* and value, the key is <= the key of every entry left, and the other entries
\* stay as they were; when the harness is done every pushed entry was popped
\* exactly once.
C8_PopReturnsMinimum ==
    /\ [][PopStep =>
            LET p == popped'[Len(popped')]
            IN /\ Len(heap'.entries) = Len(heap.entries) - 1
               /\ \E k \in 1..Len(heap.entries) :
                     /\ heap.entries[k].value = p.value
                     /\ SliceBytes(HMem, heap.entries[k].slice_key) = p.key
                     /\ Range(heap'.entries) = Range(heap.entries) \ {heap.entries[k]}
               /\ \A j \in 1..Len(heap'.entries) :
                     bytes_cmp(p.key, SliceBytes(HMem, heap'.entries[j].slice_key)) <= 0
        ]_vars
    /\ [](hpc = "done" =>
            /\ {popped[i].value : i \in {j \in 1..Len(popped) : RealPop(j)}} = 1..insert_number
            /\ Cardinality({j \in 1..Len(popped) : RealPop(j)}) = insert_number)

\* the harness is done after pops and pushes were interleaved: three different
\* keys were popped, one of them off a heap of three entries that was not the
\* entry pushed first, with a push still to come
C8_Witness ==
    /\ hpc = "done"
    /\ Cardinality({popped[i].key : i \in 1..Len(popped)}) >= 3
    /\ \E i \in 1..Len(popped) :
          /\ RealPop(i) /\ popped[i].pushes >= 3 /\ popped[i].value # 1
          /\ popped[i].pushes < insert_number

JustPushed ==
    LET n == Len(popped)
    IN /\ n > 0
       /\ popped[n].pushes = insert_number
       /\ n = 1 \/ popped[n - 1].pushes < insert_number

HeapEntryOf(v) == CHOOSE e \in Range(heap.entries) : e.value = v

C10_EqualKeysPopMostRecentFirst ==
    \A i, j \in 1..Len(popped) :
        /\ i < j /\ RealPop(i) /\ RealPop(j)
        /\ popped[i].key = popped[j].key
        /\ popped[j].value <= popped[i].pushes
        => popped[i].value > popped[j].value

\* -------------------------------------------------- claims about the driver
\* a slice of the batch as it would be written now
Chunk(srcs, sl) == [area |-> sl.area, buf |-> sl.buf, bytes |-> LineBytes(srcs, sl)]

\* everything the driver has emitted: what was written, then what is pending
Emitted == sink \o [k \in 1..Len(lines) |-> Chunk(sources, lines[k])]

IsPrefix(x, y) == Len(x) <= Len(y) /\ SubSeq(y, 1, Len(x)) = x

RECURSIVE ConcatBytes(_)
ConcatBytes(chunks) ==
    IF chunks = <<>> THEN <<>> ELSE Head(chunks).bytes \o ConcatBytes(Tail(chunks))

SelectChunks(out, s) == SelectSeq(out, LAMBDA c : c.area = "src" /\ c.buf = s)

\* the bytes of source s in a sequence of chunks
SrcBytes(out, s) == ConcatBytes(SelectChunks(out, s))

\* the lines of a byte sequence, each with its newline; the last may lack one
RECURSIVE LinesOf(_)
LinesOf(bytes) ==
    IF bytes = <<>> THEN <<>>
    ELSE LET nls == {k \in 1..Len(bytes) : bytes[k] = NL}
         IN IF nls = {} THEN <<bytes>>
            ELSE <<SubSeq(bytes, 1, Min(nls))>> \o LinesOf(SubSeq(bytes, Min(nls) + 1, Len(bytes)))

CountOf(seq, v) == Cardinality({k \in 1..Len(seq) : seq[k] = v})

\* the bytes of a key of the sorter
KeyBytes(e) == SliceBytes(MemOf(sources), e.slice_key)

\* chunk k of out starts a line: it does not continue an unterminated chunk
LineStart(out, k) ==
    \/ k = 1
    \/ out[k - 1].area # "src"
    \/ out[k - 1].bytes[Len(out[k - 1].bytes)] = NL

\* C1: whenever the driver emits a line of source s, the line is <= the pending
\* line (the sorter's key) of every other source.
C1_MergeOrder ==
    [][\A k \in (Len(Emitted) + 1)..Len(Emitted') :
          Emitted'[k].area = "src" /\ LineStart(Emitted', k)
            => \A e \in Range(sorter.entries) :
                  e.value # Emitted'[k].buf => bytes_cmp(Emitted'[k].bytes, KeyBytes(e)) <= 0
      ]_vars

\* C2: the bytes written for a source are, in order, the bytes of its file: a
\* prefix of the file while the driver runs, the whole file when it is done.
C2_PerSourceOrder ==
    pc # "idle" =>
        \A s \in SourceIds :
            /\ IsPrefix(SrcBytes(Emitted, s), files[s])
            /\ pc = "done" => SrcBytes(Emitted, s) = files[s]

\* C3: when the driver is done, the bytes written to the sink for each source are
\* as many as were read from it, the whole file was read, and every line of the
\* file was written exactly as often as it occurs in the file.
C3_Conservation ==
    pc = "done" =>
        \A s \in SourceIds :
            LET written == SrcBytes(sink, s)
            IN /\ Len(written) = offs[s]
               /\ offs[s] = Len(files[s])
               /\ \A v \in Range(LinesOf(files[s])) \cup Range(LinesOf(written)) :
                     CountOf(LinesOf(written), v) = CountOf(LinesOf(files[s]), v)

\* the index of the last chunk of a source buffer before chunk k, 0 if none
PrevSrc(out, k) ==
    LET before == {j \in 1..(k - 1) : out[j].area = "src"}
    IN IF before = {} THEN 0 ELSE Max(before)

\* a header for source s ends right before chunk k
HeaderBefore(out, k, s) ==
    /\ k > 3
    /\ out[k - 3].area = "marker"
    /\ out[k - 2].area = "path" /\ out[k - 2].buf = s
    /\ out[k - 1].area = "newline"

\* C4: a chunk of a source that follows a chunk of the same source has no header
\* in between; a chunk that follows another source's chunk, or none, has exactly
\* one header, of its source, right before it; every header is followed by a
\* chunk of its source, so a source that contributes no bytes gets no header.
C4_HeaderPlacement ==
    pc # "idle" =>
        LET out == Emitted
        IN /\ \A k \in 1..Len(out) :
                out[k].area = "src" =>
                    LET j == PrevSrc(out, k)
                        between == {h \in (j + 1)..(k - 1) : out[h].area = "marker"}
                    IN IF j # 0 /\ out[j].buf = out[k].buf
                       THEN between = {}
                       ELSE HeaderBefore(out, k, out[k].buf) /\ between = {k - 3}
           /\ \A h \in 1..Len(out) :
                out[h].area = "marker" =>
                    /\ h + 3 <= Len(out)
                    /\ out[h + 1].area = "path"
                    /\ out[h + 3].area = "src" /\ out[h + 3].buf = out[h + 1].buf
           /\ \A s \in SourceIds :
                files[s] = <<>> => \A h \in 1..Len(out) : ~(out[h].area = "path" /\ out[h].buf = s)

\* two chunks of source 0 in a row, then a header and a chunk of source 1
C4_Witness ==
    LET out == Emitted
    IN \E k \in 2..Len(out) :
          /\ out[k].area = "src" /\ out[k].buf = 0
          /\ out[k - 1].area = "src" /\ out[k - 1].buf = 0
          /\ \E m \in (k + 1)..Len(out) : out[m].area = "src" /\ out[m].buf = 1

\* the sorter's entry of source s, when it has one
InSorter(s) == \E e \in Range(sorter.entries) : e.value = s
SorterEntry(s) == CHOOSE e \in Range(sorter.entries) : e.value = s

\* the source just emitted was pushed again and its key equals the smallest key
\* of the other sources
TieWithOthers ==
    /\ pc = "loop" /\ last # -1 /\ next = last
    /\ InSorter(next)
    /\ \E o \in Range(sorter.entries) :
          o.value # next /\ bytes_cmp(KeyBytes(SorterEntry(next)), KeyBytes(o)) = 0
    /\ \A o \in Range(sorter.entries) :
          bytes_cmp(KeyBytes(SorterEntry(next)), KeyBytes(o)) <= 0

LastPushed ==
    IF last = -1
    THEN IF sorter.entries = <<>> THEN -1 ELSE Max({e.value : e \in Range(sorter.entries)})
    ELSE IF InSorter(next) THEN next ELSE -1

RECURSIVE LexLeq(_, _)
LexLeq(x, y) ==
    IF x = <<>> THEN TRUE
    ELSE IF y = <<>> THEN FALSE
    ELSE IF Head(x) # Head(y) THEN Head(x) < Head(y)
    ELSE LexLeq(Tail(x), Tail(y))

\* the keys the harness has handled: those popped and those in the heap
KeysSeen ==
    {popped[i].key : i \in 1..Len(popped)}
        \cup {SliceBytes(HMem, e.slice_key) : e \in Range(heap.entries)}

\* C11: slice_cmp is the lexicographic order on the keys: it is <= 0 exactly
\* when the first key is lexicographically <= the second (a proper prefix before
\* its extensions) and 0 only for equal keys; of two keys in the heap together of
\* which one is a proper prefix of the other, the shorter is popped first.
C11_ComparatorIsLexicographic ==
    /\ \A x, y \in KeysSeen :
          /\ bytes_cmp(x, y) <= 0 <=> LexLeq(x, y)
          /\ bytes_cmp(x, y) = 0 <=> x = y
    /\ \A i, j \in 1..Len(popped) :
          /\ i < j /\ RealPop(i) /\ RealPop(j)
          /\ popped[j].value <= popped[i].pushes
          /\ popped[i].key # popped[j].key
          => ~IsPrefix(popped[j].key, popped[i].key)

\* a key was popped before a longer key that it is a prefix of, though the
\* longer one was pushed first; another popped key differs from it in a byte
C11_Witness ==
    \E i, j \in 1..Len(popped) :
        /\ i < j /\ RealPop(i) /\ RealPop(j)
        /\ popped[i].value > popped[j].value
        /\ popped[i].key # <<>> /\ popped[i].key # popped[j].key
        /\ IsPrefix(popped[i].key, popped[j].key)
        /\ \E k \in 1..Len(popped) :
              /\ popped[k].key # <<>>
              /\ ~IsPrefix(popped[k].key, popped[j].key)
              /\ ~IsPrefix(popped[j].key, popped[k].key)

\* a step of the harness that calls heap_push_bytes
PushStep == insert_number' = insert_number + 1

\* the key the harness pushes: the bytes from `input` up to `pos`
PushedKey == [area |-> "arg", buf |-> 0, base |-> tok, len |-> pos - tok]

\* C12: a push on a heap whose length equals its capacity returns false and
\* leaves the entries as they were; any other push returns true and the length
\* grows by one; the length never exceeds the capacity.
C12_PushOnFullHeap ==
    /\ [][PushStep =>
            LET r == heap_push_slice(HMem, heap.entries, heap.capacity, PushedKey, insert_number')
            IN IF Len(heap.entries) = heap.capacity
               THEN ~r.ok /\ heap' = heap
               ELSE /\ r.ok
                    /\ Len(heap'.entries) = Len(heap.entries) + 1
                    /\ heap'.capacity = heap.capacity
                    /\ \E e \in Range(heap'.entries) :
                          e.value = insert_number' /\ e.slice_key = PushedKey
        ]_vars
    /\ [](Len(heap.entries) <= heap.capacity)

\* a push was refused by a full heap that holds entries, after pushes that
\* were taken: more pushes were made than the heap and the pops account for
C12_Witness ==
    /\ heap.capacity >= 2
    /\ Len(heap.entries) = heap.capacity
    /\ insert_number > Len(heap.entries) + Cardinality({i \in 1..Len(popped) : RealPop(i)})

\* a step of the harness that pops
AnyPopStep == Len(popped') = Len(popped) + 1

\* C13: a pop on an empty heap returns -1 with the NULL slice of length 0 and
\* leaves the heap empty; a pop on a heap that holds entries never returns -1.
C13_PopOnEmptyHeap ==
    [][AnyPopStep =>
          LET p == popped'[Len(popped')]
          IN IF Len(heap.entries) = 0
             THEN p.value = -1 /\ p.slice = NullSlice /\ p.slice.len = 0 /\ heap' = heap
             ELSE p.value # -1 /\ p.value >= 0
      ]_vars

\* a pop found the heap empty after entries had been pushed and popped, and a
\* later pop returned an entry
C13_Witness ==
    \E i, j, k \in 1..Len(popped) :
        /\ i < j /\ j < k
        /\ RealPop(i) /\ ~RealPop(j) /\ RealPop(k)

\* ------------------------------------------- more claims about the driver
\* the last byte of a non-empty byte sequence
LastByte(bytes) == bytes[Len(bytes)]

\* the last line of source s lacks its newline
Unterminated(s) == files[s] # <<>> /\ LastByte(files[s]) # NL

\* the index in out of the last chunk of source s, 0 if none
LastChunkOf(out, s) ==
    LET mine == {k \in 1..Len(out) : out[k].area = "src" /\ out[k].buf = s}
    IN IF mine = {} THEN 0 ELSE Max(mine)

\* C17: when the driver is done, the bytes emitted for a source whose last line
\* lacks a newline end with that line, and right after them comes one synthetic
\* newline, before any later header.
C17_UnterminatedLastLine ==
    pc = "done" =>
        \A s \in SourceIds :
            Unterminated(s) =>
                LET out == Emitted
                    k == LastChunkOf(out, s)
                    emitted == SrcBytes(out, s)
                    last_line == LinesOf(files[s])[Len(LinesOf(files[s]))]
                IN /\ k # 0
                   /\ Len(emitted) >= Len(last_line)
                   /\ SubSeq(emitted, Len(emitted) - Len(last_line) + 1, Len(emitted)) = last_line
                   /\ k < Len(out) /\ out[k + 1].area = "newline"
                   /\ k + 2 <= Len(out) => out[k + 2].area = "marker"

\* the number of the line of a file that holds the byte after offset off
LineNo(bytes, off) == Cardinality({k \in 1..off : bytes[k] = NL}) + 1

\* line n of the file of source s is longer than the buffer of the source
LongLine(s, n) ==
    /\ n <= Len(LinesOf(files[s]))
    /\ Len(LinesOf(files[s])[n]) > sources[s].capacity
    /\ sources[s].capacity > 0

\* the offset in the bytes emitted for source s at which chunk k of out starts
ChunkOffset(out, k, s) == Len(SrcBytes(SubSeq(out, 1, k - 1), s))

\* C18: for a source with a line longer than its buffer: the sort key of a first
\* line that did not fit is the buffer-sized prefix the read delivered; the bytes
\* emitted for the source are at all times a prefix of its file and in the end
\* the whole file (no byte repeated or dropped); the chunks of the long line are
\* contiguous in the output; and the streaming loop emits bytes of the long line
\* only: a line that follows it is emitted when it is popped.
C18_OverLongLine ==
    /\ [](\A s \in SourceIds :
            (\E n \in 1..Len(files[s]) : LongLine(s, n)) =>
                LET out == Emitted
                IN /\ (pc = "loop" /\ last = -1 /\ offs[s] = sources[s].capacity /\ LongLine(s, 1))
                        => /\ InSorter(s)
                           /\ KeyBytes(SorterEntry(s)) = SubSeq(files[s], 1, sources[s].capacity)
                   /\ IsPrefix(SrcBytes(out, s), files[s])
                   /\ pc = "done" => SrcBytes(out, s) = files[s]
                   /\ \A i, j \in 1..Len(out) :
                        /\ i < j
                        /\ out[i].area = "src" /\ out[i].buf = s
                        /\ out[j].area = "src" /\ out[j].buf = s
                        /\ LineNo(files[s], ChunkOffset(out, i, s)) = LineNo(files[s], ChunkOffset(out, j, s))
                        /\ LongLine(s, LineNo(files[s], ChunkOffset(out, i, s)))
                        => \A k \in i..j : out[k].area = "src" /\ out[k].buf = s)
    /\ [][(pc = "trunc" /\ \E n \in 1..Len(files[next]) : LongLine(next, n)) =>
            \A k \in (Len(Emitted) + 1)..Len(Emitted') :
                Emitted'[k].area = "src" =>
                    LET off == ChunkOffset(Emitted', k, next)
                    IN off > 0 /\ files[next][off] # NL
       ]_vars

\* C19: when the driver is done, nothing is pending in the output batch: every
\* slice added to it was written to the sink.
C19_FinalFlush == pc = "done" => lines = <<>>

\* the bytes of three chunks in a row starting at chunk h
HeaderBytes(out, h) == out[h].bytes \o out[h + 1].bytes \o out[h + 2].bytes

\* C20: every header is the bytes ">>> ", the file name and a newline; the first
\* header, which starts the output, has nothing before it and every later one
\* has one more newline in front.
C20_OutputFormat ==
    pc # "idle" =>
        LET out == Emitted
        IN /\ out # <<>> => out[1].area = "marker"
           /\ \A h \in 1..Len(out) :
                out[h].area = "marker" =>
                    /\ h + 2 <= Len(out)
                    /\ out[h + 1].area = "path" /\ out[h + 2].area = "newline"
                    /\ HeaderBytes(out, h) =
                         (IF h = 1 THEN <<>> ELSE <<NL>>)
                             \o <<62, 62, 62, 32>> \o Path(out[h + 1].buf) \o <<NL>>
           /\ \A h \in 1..Len(out) :
                out[h].area = "path" => h > 1 /\ out[h - 1].area = "marker"

\* the output holds the header of one file, a line, and the header of the other
C20_Witness ==
    LET out == Emitted
    IN \E h \in 4..Len(out) :
          /\ out[h].area = "marker" /\ out[h].bytes = <<NL, 62, 62, 62, 32>>
          /\ out[1].area = "marker" /\ out[1].bytes = <<62, 62, 62, 32>>
          /\ h + 3 <= Len(out) /\ out[h + 1].buf # out[2].buf

\* --------------------------------------------- claims about the ring reader
\* the file a buffer of the registered region belongs to
FileOfBuffer(buffer) == buffer % reader.files

\* C14: whatever the consumer calls and when, at most one buffer of a file is on
\* loan at any moment, and no read waiting in the submission queue has a buffer
\* on loan as its target.
C14_LoanDiscipline ==
    ring_pc # "idle" =>
        /\ \A f \in 0..(reader.files - 1) :
              Cardinality({buffer \in loans : FileOfBuffer(buffer) = f}) <= 1
        /\ \A i \in 1..Len(sq) : sq[i].addr \notin loans

\* the positions in delivered of the zero-length reads of file f
EofDelivered(f) == {i \in 1..Len(delivered) : delivered[i].file = f /\ delivered[i].len = 0}

\* a read of file f is queued, held by the kernel or completed and not yet handled
ReadPending(f) ==
    \/ \E i \in 1..Len(sq) : sq[i].file = f
    \/ \E sqe \in in_flight : sqe.file = f
    \/ \E i \in 1..Len(cq) : cq[i].file = f

\* C15: the call that handles a completion of zero bytes returns a zero-length
\* slice with the file's index, takes one from open_files and queues no read; a
\* completion with bytes leaves open_files alone and queues one read.  A file
\* delivers at most one zero-length read, nothing after it and no read of it is
\* pending any more, open_files counts the files that have not delivered theirs,
\* and at the end every file has delivered exactly one.
C15_EndOfFile ==
    /\ [](ring_pc \in {"run", "end"} =>
            /\ \A f \in 0..(reader.files - 1) :
                  /\ Cardinality(EofDelivered(f)) <= 1
                  /\ \A i \in EofDelivered(f) :
                        /\ \A j \in (i + 1)..Len(delivered) : delivered[j].file # f
                        /\ ~ReadPending(f)
                  /\ ring_pc = "end" => Cardinality(EofDelivered(f)) = 1
            /\ reader.open_files =
                  reader.files - Cardinality({f \in 0..(reader.files - 1) : EofDelivered(f) # {}}))
    /\ [][Len(delivered') > Len(delivered) =>
            LET cqe == Head(cq)
                got == delivered'[Len(delivered')]
            IN /\ got.file = cqe.file
               /\ got.len = cqe.res
               /\ IF cqe.res = 0
                  THEN reader'.open_files = reader.open_files - 1 /\ sq' = sq
                  ELSE /\ reader'.open_files = reader.open_files
                       /\ Len(sq') = Len(sq) + 1
                       /\ sq'[Len(sq')].file = cqe.file
       ]_vars

\* the program ended after an empty file gave its zero-length read from buffer A
\* and a longer file gave its own from buffer B
C15_Witness ==
    /\ ring_pc = "end"
    /\ \E f, g \in 0..(reader.files - 1) :
          /\ file_sizes[f] = 0
          /\ \E i \in EofDelivered(g) : delivered[i].base >= reader.files

\* C16: uring_get_any_unloaned returns -1 only when open_files is 0 and every
\* file has delivered its zero-length read; called with open_files 0 it returns
\* no read and submits nothing; and when the kernel completes every read, a
\* consumer that keeps calling it receives -1 in the end.
C16_EndOfInput ==
    /\ [][(ring_pc = "run" /\ ring_pc' = "end") =>
            /\ reader.open_files = 0
            /\ \A f \in 0..(reader.files - 1) : EofDelivered(f) # {}
       ]_vars
    /\ [][(ring_pc = "run" /\ reader.open_files = 0) =>
            delivered' = delivered /\ sq' = sq /\ in_flight' = in_flight
       ]_vars
    /\ <>(ring_pc = "end")

\* the consumer received -1 after four reads or more, every loan returned
C16_Witness ==
    /\ ring_pc = "end"
    /\ Len(delivered) >= 4
    /\ loans = {}
    /\ \A f \in 0..(reader.files - 1) : file_sizes[f] > 0

\* ------------------------------------------------ claims about heap and driver
\* C25: after every push and every pop of the harness, no entry of the heap
\* compares smaller than its parent (1-based parent of i: i div 2), equal keys
\* included.
C25_HeapInvariant ==
    hpc # "idle" =>
        \A i \in 2..Len(heap.entries) :
            slice_cmp(HMem, heap.entries[i \div 2], heap.entries[i]) <= 0

\* after a pop, a heap of four entries or more in which a parent equals its
\* child and a smaller key sits at the root
C25_Witness ==
    /\ hpc # "idle"
    /\ \E p \in 1..Len(popped) : RealPop(p)
    /\ Len(heap.entries) >= 4
    /\ slice_cmp(HMem, heap.entries[2], heap.entries[4]) = 0
    /\ slice_cmp(HMem, heap.entries[1], heap.entries[2]) < 0

\* the number of entries of source s in the sorter
EntriesOf(s) == Cardinality({k \in 1..Len(sorter.entries) : sorter.entries[k].value = s})

\* C26: the sorter holds at most one entry per source and never more entries
\* than there are sources, its capacity; wherever the driver pushes next without
\* a pop before it (the start-up loop, the streaming loop) there is room, and
\* the source to be pushed has no entry.
C26_OneEntryPerSource ==
    pc # "idle" =>
        /\ \A s \in SourceIds : EntriesOf(s) <= 1
        /\ sorter.capacity = Cardinality(SourceIds)
        /\ Len(sorter.entries) <= sorter.capacity
        /\ pc = "open" =>
              /\ Len(sorter.entries) < sorter.capacity
              /\ \A s \in SourceIds : s >= isrc => EntriesOf(s) = 0
        /\ pc = "trunc" =>
              /\ Len(sorter.entries) < sorter.capacity
              /\ EntriesOf(next) = 0

\* both sources are in the sorter after one of them was popped, written and
\* pushed again
C26_Witness ==
    /\ pc = "loop"
    /\ last # -1
    /\ Len(sorter.entries) = Cardinality(SourceIds)
    /\ EntriesOf(last) = 1
    /\ Len(sink) >= 5

\* C27: in every step, a source that has an entry in the sorter which the step
\* does not pop keeps its buffer, its file offset (nothing is read into the
\* buffer or moved in it) and its entry, whose key bytes are then the same.
C27_KeyValidity ==
    [][\A s \in SourceIds :
          (InSorter(s) /\ ~(pc = "loop" /\ MainPop.value = s)) =>
              /\ sources'[s].buffer = sources[s].buffer
              /\ offs'[s] = offs[s]
              /\ InSorter(s)'
              /\ SorterEntry(s)' = SorterEntry(s)
              /\ KeyBytes(SorterEntry(s))' = KeyBytes(SorterEntry(s))
      ]_vars

\* a source was read again and pushed while the other source had its entry
C27_Witness ==
    /\ pc = "loop"
    /\ last # -1
    /\ InSorter(last)
    /\ \E s \in SourceIds : s # last /\ InSorter(s) /\ offs[s] > 0
    /\ offs[last] > sources[last].length

\* C28: what was emitted stays as it is, written or pending (no pending slice
\* changes its bytes); and a step that reads into the buffer of a source,
\* moves bytes in it or frees it leaves no slice pending that pointed into
\* it before: such slices are written by the end of the step.  The line popped
\* in a step is emitted with the bytes its key had.
C28_FlushBeforeReuse ==
    [][/\ IsPrefix(Emitted, Emitted')
       /\ \A k \in 1..Len(lines) :
             (/\ lines[k].area = "src"
              /\ \/ sources'[lines[k].buf].buffer # sources[lines[k].buf].buffer
                 \/ offs'[lines[k].buf] # offs[lines[k].buf]
                 \/ (pc = "trunc" /\ lines[k].buf = next))
             => Len(sink') >= Len(sink) + k
       /\ (pc = "loop" /\ MainPop.value # -1) =>
             \E k \in (Len(Emitted) + 1)..Len(Emitted') :
                Emitted'[k] = Chunk(sources, MainPop.key)
      ]_vars

\* a line was popped and written, and the read that followed overwrote it in
\* the buffer
C28_Witness ==
    /\ pc = "loop"
    /\ last # -1
    /\ lines = <<>>
    /\ InSorter(last)
    /\ sink[Len(sink)].area = "src"
    /\ sink[Len(sink)].buf = last
    /\ Len(sink[Len(sink)].bytes) <= sources[last].length
    /\ sink[Len(sink)].bytes # SubSeq(sources[last].buffer, 1, Len(sink[Len(sink)].bytes))

\* -------------------------------------- more claims about the ring reader
\* the bytes delivered for file f
DeliveredBytes(f) ==
    LET mine == {i \in 1..Len(delivered) : delivered[i].file = f}
        RECURSIVE Sum(_)
        Sum(S) == IF S = {} THEN 0
                  ELSE LET i == CHOOSE i \in S : TRUE IN delivered[i].len + Sum(S \ {i})
    IN Sum(mine)

\* C23: when no ring could be created the program is not terminated by the
\* reader, no ring state is touched, and at the end every file was delivered in
\* full.
C23_FallbackWithoutRing ==
    (ring_pc # "idle" /\ reader.ring_fd = -1) =>
        /\ ring_pc # "crashed"
        /\ sq = <<>> /\ in_flight = {} /\ cq = <<>>
        /\ ring_pc = "end" =>
              \A f \in 0..(reader.files - 1) : DeliveredBytes(f) = file_sizes[f]

\* C32: a round of the loop of uring_get_any_unloaned that finds no completion
\* to handle while files are open calls io_uring_enter, also when nothing is
\* waiting to be submitted: no round only looks at the completion queue again.
\* The call gives the kernel every entry added and returns once the completion
\* queue holds an entry.
C32_BlockingPoint ==
    /\ [][idle_rounds' = idle_rounds]_vars
    /\ [][(ring_pc = "run" /\ ring_pc' = "wait") =>
            (cq = <<>> /\ sq' = <<>> /\ Range(sq) \subseteq in_flight')]_vars
    /\ [][(ring_pc = "wait" /\ ring_pc' = "run") => cq # <<>>]_vars

\* ------------------------------------------- claims about the output batch
\* C21: every writev of lines_flush is given descriptor 1, standard output.
C21_WritesToStandardOutput ==
    \A i \in 1..Len(writes) : writes[i].fd = 1

\* C24: once writev has returned 0 with slices pending, the program has
\* terminated with the status of an I/O failure.
C24_ZeroByteWrite ==
    (\E i \in 1..Len(returns) : returns[i] = 0) => (lpc = "exit" /\ exit_status = EX_IOERR)

RECURSIVE Concat(_)
Concat(seqs) == IF seqs = <<>> THEN <<>> ELSE Head(seqs) \o Concat(Tail(seqs))

\* the bytes written so far, and the bytes given to lines_add so far
WrittenBytes == Concat([i \in 1..Len(writes) |-> writes[i].bytes])
AddedBytes == Concat(slices_added)

\* C29: the batch never holds more slices than its capacity.  While every
\* writev has returned a positive value, the bytes written followed by the
\* bytes still pending are the bytes added, in the order they were added, each
\* once; and when lines_flush returns, all bytes added before it are written
\* and the batch is empty but for the slice lines_add then stores.
C29_ShortWriteRetry ==
    /\ [](lpc # "idle" =>
            /\ batch.length <= batch.capacity
            /\ (\A i \in 1..Len(returns) : returns[i] > 0) =>
                  WrittenBytes \o PendingBytes(batch, completely_written) \o to_add = AddedBytes)
    /\ [][(lpc = "flush" /\ lpc' = "call" /\ \A i \in 1..Len(returns) : returns[i] > 0) =>
            /\ WrittenBytes' \o to_add = AddedBytes
            /\ batch'.length = (IF to_add = <<>> THEN 0 ELSE 1)
            /\ PendingBytes(batch', 0) = to_add
       ]_vars

\* lines_add has flushed a full batch, and a write ended in the middle of a slice
C29_Witness ==
    /\ lpc = "call"
    /\ Len(slices_added) > batch.capacity
    /\ batch.capacity > 0
    /\ batch.length = 1
    /\ \A i \in 1..Len(returns) : returns[i] > 0
    /\ Len(writes) >= 3
    /\ \E i \in 1..Len(writes) : writes[i].bytes[Len(writes[i].bytes)] = CHAR_B

\* ------------------------------------------- claims about the driver's exits
\* C22: when a file cannot be opened the program terminates with status 66
\* (EX_NOINPUT): it never enters the merge loop, and nothing is emitted.
C22_OpenFailure ==
    /\ missing # {} => (pc \in {"open", "exit"} /\ Emitted = <<>>)
    /\ pc = "exit" => main_status = EX_NOINPUT

\* C30: the main loop reaches an empty heap and the program ends.
C30_Termination == <>(pc = "done")

\* ------------------------------------- claims about the ring reader by steps
\* the number of reads of file f that are queued or held by the kernel
ReadsOf(f) ==
    Cardinality({i \in 1..Len(sq) : sq[i].file = f /\ sq[i].operation # "OPEN_FILE"})
        + Cardinality({sqe \in in_flight : sqe.file = f /\ sqe.operation # "OPEN_FILE"})

\* the offsets in file f of the reads of f that are queued or held by the kernel
ReadOffsetsOf(f) ==
    {sq[i].off : i \in {i \in 1..Len(sq) : sq[i].file = f /\ sq[i].operation # "OPEN_FILE"}}
        \cup {sqe.off : sqe \in {sqe \in in_flight : sqe.file = f /\ sqe.operation # "OPEN_FILE"}}

\* what was delivered for file f, in the order of delivery
DeliveredSlices(f) ==
    LET RECURSIVE From(_)
        From(i) == IF i > Len(delivered) THEN <<>>
                   ELSE IF delivered[i].file = f THEN delivered[i].bytes \o From(i + 1)
                   ELSE From(i + 1)
    IN From(1)

\* C31: of each file at most one read is queued or held by the kernel, none
\* while a completion of the file waits to be handled; a read is asked at the
\* offset that is the sum of the lengths delivered for the file; what was
\* delivered for a file is, in the order of delivery, the start of the file,
\* and the whole file once its zero-length read was delivered.
C31_SequentialReads ==
    ring_pc \notin {"idle", "crashed"} =>
        \A f \in 0..(reader.files - 1) :
            /\ ReadsOf(f) <= 1
            /\ (\E i \in 1..Len(cq) : cq[i].file = f /\ cq[i].operation # "OPEN_FILE")
                  => ReadsOf(f) = 0
            /\ ReadOffsetsOf(f) \subseteq {DeliveredBytes(f)}
            /\ DeliveredBytes(f) <= Max({file_sizes[f], 0})
            /\ DeliveredSlices(f) = FileBytesAt(f, 0, DeliveredBytes(f))
            /\ EofDelivered(f) # {} => DeliveredBytes(f) = file_sizes[f]

\* the program ended after a file of three bytes was delivered in two reads or
\* more, from both of its buffers
C31_Witness ==
    /\ ring_pc = "end"
    /\ \E f \in 0..(reader.files - 1) :
          /\ file_sizes[f] = 3
          /\ DeliveredSlices(f) = FileBytesAt(f, 0, 3)
          /\ \E i, j \in 1..Len(delivered) :
                /\ delivered[i].file = f /\ delivered[j].file = f
                /\ delivered[i].len > 0 /\ delivered[j].len > 0
                /\ delivered[i].base # delivered[j].base

\* C33: the entries added to the submission ring and not yet taken by
\* io_uring_enter are those counted by to_submit, and are never more than the
\* capacity of the ring (the number of files, made even): in both batches of
\* uring_open_files and afterwards.
C33_SubmissionRingCapacity ==
    ring_pc \notin {"idle", "crashed"} =>
        /\ reader.to_submit = Len(sq)
        /\ Len(sq) <= ring_capacity(reader.files)
        /\ ring_pc \in {"run", "wait", "end", "exit"} => Len(sq) <= reader.files

\* the ring is full after the second batch of the opens of an odd number of files
C33_Witness ==
    /\ ring_pc = "second_added"
    /\ reader.files % 2 = 1
    /\ reader.to_submit = ring_capacity(reader.files)
    /\ reader.to_submit > reader.files

\* the completions of file f that are posted and not yet consumed
CompletionsOf(f) == {i \in 1..Len(cq) : cq[i].file = f}

\* C34: in whatever order the kernel completes the operations, at most one
\* completion of a file is in the completion queue at a time, so the queue
\* never holds more entries than there are files.
C34_CompletionQueueSize ==
    ring_pc \notin {"idle", "crashed"} =>
        /\ \A f \in 0..(reader.files - 1) : Cardinality(CompletionsOf(f)) <= 1
        /\ Len(cq) <= reader.files

\* a step of the program that takes the completion at the head of the queue
Consumes == cq # <<>> /\ cq' = Tail(cq)

\* C35: no read is returned for the completion of an open or of a cancelled
\* read.  Taking the completion of a failed open ends the program with
\* EX_NOINPUT and a message that names the file of that open; the reader ends
\* the program with no other status.  Taking the completion of a cancelled read
\* returns nothing and changes nothing else: the loop goes on with the next
\* completion.
C35_OpenAndCancelCompletions ==
    /\ [][Len(delivered') > Len(delivered) =>
            /\ Head(cq).operation # "OPEN_FILE"
            /\ Head(cq).res # -ECANCELED
            /\ delivered'[Len(delivered')].len >= 0]_vars
    /\ [][(Consumes /\ Head(cq).operation = "OPEN_FILE" /\ Head(cq).res < 0) =>
            /\ ring_pc' = "exit"
            /\ ring_status' = [status |-> EX_NOINPUT, named |-> Head(cq).file]]_vars
    /\ [][(Consumes /\ Head(cq).operation # "OPEN_FILE" /\ Head(cq).res = -ECANCELED) =>
            /\ ring_pc' = "run"
            /\ UNCHANGED <<reader, sq, in_flight, loans, delivered, ring_status>>]_vars
    /\ [](ring_pc = "exit" => ring_status.status = EX_NOINPUT)

\* the program ended on the failed open of a file after it had skipped the
\* cancelled read of that file and had returned a read of another file
C35_Witness ==
    /\ ring_pc = "exit"
    /\ ring_status.status = EX_NOINPUT
    /\ \A sqe \in in_flight : sqe.file # ring_status.named
    /\ \A i \in 1..Len(cq) : cq[i].file # ring_status.named
    /\ \E i \in 1..Len(delivered) : delivered[i].file # ring_status.named

\* ------------------------------------------------ claims about the line framer
\* the 0-based offsets of the newlines among the first n bytes of a buffer
NewlinesIn(buffer, n) == {k \in 0..(n - 1) : buffer[k + 1] = NL}

\* C36: find_lines returns the number of newlines among the bytes it is given,
\* sets first_line_length to the offset of the first newline plus one, or to
\* bytes when there is no newline, sets last_line_starts to the offset after
\* the last newline, and looks at no byte at offset bytes or beyond.
C36_LineScan ==
    fpc = "scanned" =>
        LET newlines == NewlinesIn(scan.buffer, scan.bytes)
            result == scan.result
        IN /\ result.lines = Cardinality(newlines)
           /\ result.first_line_length =
                 (IF newlines = {} THEN scan.bytes ELSE Min(newlines) + 1)
           /\ newlines # {} => result.last_line_starts = Max(newlines) + 1
           /\ result.last_line_starts \in 0..scan.bytes
           /\ \A k \in result.examined : 0 <= k /\ k < scan.bytes

\* find_lines returned from a buffer with two newlines, bytes after the last
\* of them, and a newline right after the bytes it was given
C36_Witness ==
    /\ fpc = "scanned"
    /\ scan.bytes = 3
    /\ scan.result.lines = 2
    /\ scan.result.last_line_starts = 2
    /\ scan.buffer[4] = NL

\* the number of bytes after the last newline among the bytes of the file at
\* offsets from..(to - 1), which is all of them when none is a newline
TailLength(from, to) ==
    to - Max({from} \cup {k \in (from + 1)..to : framed_file[k] = NL})

\* the last struct line a program reported, with the read it was made from
LastReported == reported[Len(reported)]

\* C37: when uring_get_first_line_in_read has handled a read that holds bytes,
\* the incomplete line length recorded is the number of bytes after the last
\* newline of the unfinished line it had plus the read (all of them when the
\* read holds no newline), the next read is queued at the buffer plus that
\* length for the rest of the buffer, and the line returned starts with the
\* bytes of the unfinished line it had.
C37_CarryOfPartialLines ==
    [][(fpc = "uring" /\ Len(reported') = Len(reported) + 1 /\ LastReported'.len > 0) =>
        LET got == LastReported'
            tail == TailLength(got.at - got.carry, got.at + got.len)
        IN /\ framer'.incomplete_line_length = tail
           /\ framer'.read = [addr |-> tail, len |-> FramerBufferSz - tail,
                              off |-> got.at + got.len]
           /\ SubSeq(got.ret.line, 1, got.carry)
                 = SubSeq(framed_file, got.at - got.carry + 1, got.at)]_vars

\* the number of newlines among the first n bytes of the file
NewlinesBefore(n) == Cardinality({k \in 1..n : framed_file[k] = NL})

C39_FlushBounds ==
    [][(lpc = "flush" /\ lpc' = "flush" /\ Len(returns') = Len(returns) + 1) =>
        completely_written' < batch.length]_vars

\* -------------------------------------------- claims about logmerger's sorter
\* C40: every call of sorter_pop returns: a program that is in sorter_pop,
\* before or in its down-heap loop, gets its value or the -1 that ends the
\* loop of main.
C40_SorterPopReturns ==
    (mpc \in {"pop", "down"}) ~> (mpc \in {"popped", "end"})
====
